---- MODULE Spec2Model ----
(***************************************************************************)
(* A model of Play-As-Gobo: the Entity/Player size rules, the Explosion    *)
(* and ExplosionManager pool, ground-collision resolution, the Options     *)
(* screen and the menu/game state machine of Game::Run, main() with the    *)
(* Game's resources, the frame loop under window resizes, the collision    *)
(* of the player with an enemy, the order of a Playing frame's calls, and  *)
(* whole sessions of menus and games with the enemy list, the spawn timer  *)
(* and the difficulty progression.                                         *)
(*                                                                         *)
(* Numbers.  The program computes in float; the model computes in          *)
(* integers:                                                               *)
(*   - time is counted in half seconds (DEFAULT_MAX_DURATION 1.5 s = 3);   *)
(*   - a player's size scale is counted in thousandths (2.0 = 2000) and    *)
(*     an entity radius in tenths of a pixel where the size rules are      *)
(*     modelled (whole pixels in ground collision, which only adds and     *)
(*     compares); products and quotients truncate;                         *)
(*   - comparisons between a distance and a radius are made exactly, by    *)
(*     cross-multiplying and squaring.                                     *)
(* Every part has its own specification (SpecPool, SpecExplosion, ...);    *)
(* the variables a specification does not use keep their initial value.    *)
(***************************************************************************)
EXTENDS Integers, Sequences, FiniteSets, TLC

VARIABLES
    m_explosions,      \* ExplosionManager::m_explosions, the pool, in list order
    m_maxExplosions,   \* ExplosionManager::m_maxExplosions
    poolOp,            \* the last ExplosionManager call and its arguments
    query,             \* the last CheckExplosionDamage call: target and result
    expl,              \* one Explosion on its own (SpecExplosion)
    explOp,            \* the last call made on expl
    explStarted,       \* Start has been called on expl
    ent,               \* one Entity on its own, a Player or an Enemy (SpecEntity)
    entOp,             \* the last call made on ent
    entCalls,          \* how many calls have been made on ent
    game,              \* the Game's members (SpecOptions, SpecGame, SpecSession)
    frame,             \* the state and the keys of the last frame run
    entity,            \* the body handed to HandleGroundCollision (SpecGround)
    m_grounds,         \* the Game's ground list
    collideOp,         \* the last HandleGroundCollision call
    proc,              \* main(): the process from start to exit code (SpecMain)
    resize,            \* the frame loop under window resizes (SpecResize)
    clash,             \* one player/enemy overlap and its handling (SpecCollide)
    upd                \* one Playing frame, step by step (SpecFrame)

Min(a, b) == IF a < b THEN a ELSE b
Max(a, b) == IF a > b THEN a ELSE b
Abs(a) == IF a < 0 THEN -a ELSE a

(***************************************************************************)
(* Explosion (Explosion.hpp / Explosion.cpp)                               *)
(***************************************************************************)

\* Explosion::DEFAULT_MAX_DURATION = 1.5f, in half seconds.
DEFAULT_MAX_DURATION == 3
\* Explosion::DEFAULT_MAX_RADIUS = 80.0f, in pixels.
DEFAULT_MAX_RADIUS == 80

\* How many particles an explosion of the model carries (m_particleCount).
NumParticles == 2

\* GenerateRandomFloat(MIN_PARTICLE_LIFE, MAX_PARTICLE_LIFE): the lifespans a
\* particle can draw, 1.0 s and 1.5 s, in half seconds.
ParticleLifeChoices == {2, 3}

\* The frame times Update is called with, in half seconds; 0 and -1 are the
\* invalid ones (deltaTime <= 0).
DeltaTimes == {-1, 0, 1, 2}

\* The places an explosion or a target can be at.
Positions == {<<0, 0>>, <<30, 40>>}

\* A default-constructed Explosion: the member initialisers of Explosion.hpp.
NewExplosion ==
    [m_position |-> <<0, 0>>, m_timer |-> 0, m_isActive |-> FALSE,
     m_particles |-> <<>>]

\* Explosion::CalculateParticleColor with lifeRatio = num / den (den > 0):
\* the colour step, and alpha = (unsigned char)(255 * lifeRatio).
CalculateParticleColor(num, den) ==
    [rgb |-> IF 10 * num > 8 * den THEN "WHITE"
             ELSE IF 10 * num > 6 * den THEN "YELLOW"
             ELSE IF 10 * num > 4 * den THEN "ORANGE"
             ELSE IF 10 * num > 2 * den THEN "RED"
             ELSE "MAROON",
     a |-> ((255 * num) \div den) % 256]

\* The same without std::max(0.0f, ...): a negative ratio reaches the cast.
UpdateParticle_NoClamp(p, deltaTime) ==
    IF p.life <= 0 THEN p
    ELSE LET life == p.life - deltaTime
         IN  [p EXCEPT !.life = life,
                       !.color = CalculateParticleColor(life, p.maxLife)]

\* Explosion::UpdateParticle.  Position, velocity and size are not kept: no
\* query of the model reads them.
UpdateParticle(p, deltaTime) ==
    IF p.life <= 0 THEN p
    ELSE LET life == p.life - deltaTime
         IN  [p EXCEPT !.life = life,
                       !.color = CalculateParticleColor(Max(0, life), p.maxLife)]

\* Explosion::CreateParticles: one particle per drawn lifespan, colour WHITE.
CreateParticles(lives) ==
    [i \in 1..Len(lives) |->
        [life |-> lives[i], maxLife |-> lives[i],
         color |-> [rgb |-> "WHITE", a |-> 255]]]

\* Explosion::Start.
ExplosionStart(e, position, lives) ==
    [e EXCEPT !.m_position = position, !.m_timer = 0, !.m_isActive = TRUE,
              !.m_particles = CreateParticles(lives)]

\* Explosion::Update ending the explosion with > in place of >=.
ExplosionUpdate_Late(e, deltaTime) ==
    IF ~e.m_isActive \/ deltaTime <= 0 THEN e
    ELSE LET t == e.m_timer + deltaTime
         IN  [e EXCEPT !.m_timer = t,
                       !.m_particles = [i \in 1..Len(e.m_particles) |->
                                           UpdateParticle(e.m_particles[i], deltaTime)],
                       !.m_isActive = ~(t > DEFAULT_MAX_DURATION)]

\* Explosion::Update (with UpdateParticles).
ExplosionUpdate(e, deltaTime) ==
    IF ~e.m_isActive \/ deltaTime <= 0 THEN e
    ELSE LET t == e.m_timer + deltaTime
         IN  [e EXCEPT !.m_timer = t,
                       !.m_particles = [i \in 1..Len(e.m_particles) |->
                                           UpdateParticle(e.m_particles[i], deltaTime)],
                       !.m_isActive = ~(t >= DEFAULT_MAX_DURATION)]

\* GetRadius without its test of m_isActive.
GetRadius_NoActiveTest(e) ==
    Min(e.m_timer, DEFAULT_MAX_DURATION) * DEFAULT_MAX_RADIUS

\* Explosion::GetRadius, times m_maxDuration (so that it stays an integer):
\* min(m_timer / m_maxDuration, 1) * m_maxRadius.
GetRadius(e) ==
    IF ~e.m_isActive THEN 0
    ELSE Min(e.m_timer, DEFAULT_MAX_DURATION) * DEFAULT_MAX_RADIUS

\* Explosion::GetDamageRadius, times m_maxDuration.
GetDamageRadius(e) == IF e.m_isActive THEN GetRadius(e) ELSE 0

\* Explosion::IsInDamagePhase.
IsInDamagePhase(e) == e.m_isActive

\* Vector2Distance(a, b) squared.
Vector2DistanceSq(a, b) ==
    (a[1] - b[1]) * (a[1] - b[1]) + (a[2] - b[2]) * (a[2] - b[2])

\* distance < totalRadius, where totalRadius is given times m_maxDuration.
DistanceLess(a, b, totalScaled) ==
    /\ totalScaled > 0
    /\ DEFAULT_MAX_DURATION * DEFAULT_MAX_DURATION * Vector2DistanceSq(a, b)
         < totalScaled * totalScaled

(***************************************************************************)
(* ExplosionManager                                                        *)
(***************************************************************************)

\* ExplosionManager::DEFAULT_MAX_EXPLOSIONS, MIN_MAX_EXPLOSIONS, MAX_MAX_EXPLOSIONS.
DEFAULT_MAX_EXPLOSIONS == 50
MIN_MAX_EXPLOSIONS == 1
MAX_MAX_EXPLOSIONS == 500

\* The pool of the model never grows past this many slots: CreateExplosion is
\* not tried when it would allocate one more.
MaxSlots == 3

\* The maxima SetMaxExplosions is called with: 0 and 501 are invalid.
MaxCounts == {0, 1, 2, 501}

\* The radii of the targets CheckExplosionDamage is asked about, in pixels.
TargetRadii == {10, 30}

\* FindInactiveExplosion returning the last inactive slot instead of the first.
FindInactiveExplosion_Last(pool) ==
    IF \E i \in 1..Len(pool) : ~pool[i].m_isActive
    THEN CHOOSE i \in 1..Len(pool) :
            /\ ~pool[i].m_isActive
            /\ \A j \in 1..Len(pool) : ~pool[j].m_isActive => j <= i
    ELSE 0

\* ExplosionManager::FindInactiveExplosion: the index of the first inactive
\* slot in list order, 0 for nullptr.
FindInactiveExplosion(pool) ==
    IF \E i \in 1..Len(pool) : ~pool[i].m_isActive
    THEN CHOOSE i \in 1..Len(pool) :
            /\ ~pool[i].m_isActive
            /\ \A j \in 1..(i - 1) : pool[j].m_isActive
    ELSE 0

\* ExplosionManager::CleanupInactiveExplosions.
IsActiveSlot(e) == e.m_isActive
CleanupInactiveExplosions(pool) == SelectSeq(pool, IsActiveSlot)

\* CreateNewExplosion without the "still have room" test.
CreateNewExplosion_NoCap(pool, maxCount, position, lives) ==
    Append(pool, ExplosionStart(NewExplosion, position, lives))

\* CreateNewExplosion evicting the oldest slot when the pool is full.
CreateNewExplosion_Evict(pool, maxCount, position, lives) ==
    LET cleaned == IF Len(pool) >= maxCount
                   THEN CleanupInactiveExplosions(pool) ELSE pool
        room == IF Len(cleaned) >= maxCount THEN Tail(cleaned) ELSE cleaned
    IN  Append(room, ExplosionStart(NewExplosion, position, lives))

\* ExplosionManager::CreateNewExplosion.
CreateNewExplosion(pool, maxCount, position, lives) ==
    LET cleaned == IF Len(pool) >= maxCount
                   THEN CleanupInactiveExplosions(pool) ELSE pool
    IN  IF Len(cleaned) < maxCount
        THEN Append(cleaned, ExplosionStart(NewExplosion, position, lives))
        ELSE cleaned

\* ExplosionManager::CreateExplosion.
CreateExplosion(pool, maxCount, position, lives) ==
    LET k == FindInactiveExplosion(pool)
    IN  IF k # 0
        THEN [pool EXCEPT ![k] = ExplosionStart(@, position, lives)]
        ELSE CreateNewExplosion(pool, maxCount, position, lives)

\* ExplosionManager::Update.
ManagerUpdate(pool, deltaTime) ==
    IF deltaTime <= 0 THEN pool
    ELSE [i \in 1..Len(pool) |-> ExplosionUpdate(pool[i], deltaTime)]

\* ExplosionManager::ValidateMaxExplosions: TRUE when it does not throw.
ValidateMaxExplosions(maxCount) ==
    ~(maxCount < MIN_MAX_EXPLOSIONS \/ maxCount > MAX_MAX_EXPLOSIONS)

\* ExplosionManager::SetMaxExplosions: the pool it leaves.
SetMaxExplosionsPool(pool, maxCount) ==
    IF ~ValidateMaxExplosions(maxCount) THEN pool
    ELSE IF Len(pool) > maxCount
         THEN LET cleaned == CleanupInactiveExplosions(pool)
              IN  IF Len(cleaned) > maxCount
                  THEN SubSeq(cleaned, Len(cleaned) - maxCount + 1, Len(cleaned))
                  ELSE cleaned
         ELSE pool

\* The loop of ExplosionManager::CheckExplosionDamage from slot i on.
RECURSIVE CheckExplosionDamageFrom(_, _, _, _)
CheckExplosionDamageFrom(pool, i, position, radius) ==
    IF i > Len(pool) THEN FALSE
    ELSE IF ~IsInDamagePhase(pool[i])
         THEN CheckExplosionDamageFrom(pool, i + 1, position, radius)
         ELSE LET total == GetDamageRadius(pool[i]) + radius * DEFAULT_MAX_DURATION
              IN  IF DistanceLess(pool[i].m_position, position, total)
                  THEN TRUE
                  ELSE CheckExplosionDamageFrom(pool, i + 1, position, radius)

\* CheckExplosionDamage forgetting the target's own radius.
CheckExplosionDamage_NoTargetRadius(pool, position, radius) ==
    CheckExplosionDamageFrom(pool, 1, position, 0)

\* ExplosionManager::CheckExplosionDamage.
CheckExplosionDamage(pool, position, radius) ==
    CheckExplosionDamageFrom(pool, 1, position, radius)

(***************************************************************************)
(* Entity, Player, Enemy (Entity.hpp, Entity.cpp, Player.hpp, Player.cpp)  *)
(* Radii in tenths of a pixel, scales in thousandths.                      *)
(***************************************************************************)

\* Entity::MIN_RADIUS = 1.0f and Entity::MAX_RADIUS = 1000.0f.
MIN_RADIUS == 10
MAX_RADIUS == 10000

\* Player::DAMAGE_SCALE_FACTOR 0.75, GROWTH_SCALE_FACTOR 1.2,
\* SHRINK_SCALE_FACTOR 1.1, BOMB_RADIUS_REDUCTION 0.75.
DAMAGE_SCALE_FACTOR == 750
GROWTH_SCALE_FACTOR == 1200
SHRINK_SCALE_FACTOR == 1100
BOMB_RADIUS_REDUCTION == 750

\* The local MIN_SCALE 0.1 of TakeDamage and ShrinkSize, the local MAX_SCALE
\* 5.0 of GrowLarger, and the MIN_SCALE 0.1 / MAX_SCALE 10.0 of ValidateScale.
MIN_SCALE == 100
GROW_MAX_SCALE == 5000
VALID_MAX_SCALE == 10000

\* value * scale and a / b as a scale, scales being thousandths.
MulK(a, b) == (a * b) \div 1000
DivK(a, b) == (a * 1000) \div b

\* ValidateRadius without its lower test.
ValidateRadius_NoMinimum(radius) == ~(radius > MAX_RADIUS)

\* Entity::ValidateRadius: TRUE when it does not throw.
ValidateRadius(radius) == ~(radius < MIN_RADIUS \/ radius > MAX_RADIUS)

\* Player::ValidateScale: TRUE when it does not throw.
ValidateScale(scale) == ~(scale < MIN_SCALE \/ scale > VALID_MAX_SCALE)

\* Entity::SetRadius: the entity it leaves (unchanged when it throws).
SetRadius(e, radius) ==
    IF ValidateRadius(radius) THEN [e EXCEPT !.radius = radius] ELSE e

\* Player::UpdateRadius: SetRadius(m_originalRadius * m_sizeScale), a throw
\* caught and logged.
UpdateRadius(p) == SetRadius(p, MulK(p.m_originalRadius, p.m_sizeScale))

\* Player::TakeDamage.
TakeDamage(p) ==
    LET scaled == MulK(p.m_sizeScale, DAMAGE_SCALE_FACTOR)
    IN  UpdateRadius([p EXCEPT !.m_sizeScale =
                         IF scaled < MIN_SCALE THEN MIN_SCALE ELSE scaled])

\* Player::GrowLarger.
GrowLarger(p) ==
    LET scaled == MulK(p.m_sizeScale, GROWTH_SCALE_FACTOR)
    IN  UpdateRadius([p EXCEPT !.m_sizeScale =
                         IF scaled > GROW_MAX_SCALE THEN GROW_MAX_SCALE ELSE scaled])

\* Player::ShrinkSize.
ShrinkSize(p) ==
    LET scaled == DivK(p.m_sizeScale, SHRINK_SCALE_FACTOR)
    IN  UpdateRadius([p EXCEPT !.m_sizeScale =
                         IF scaled < MIN_SCALE THEN MIN_SCALE ELSE scaled])

\* Player::ResetToOriginalSize.
ResetToOriginalSize(p) == UpdateRadius([p EXCEPT !.m_sizeScale = 1000])

\* Player::EnableBomb.
EnableBomb(p) == [p EXCEPT !.m_canUseBomb = TRUE]

\* Player::HandleBombInput, what it does to the player when Space is pressed
\* and the bomb is enabled.  SetRadius is not guarded here: when it throws
\* the scale and the bomb flag are left as they were.
BombShrink(p) ==
    LET newRadius == MulK(p.radius, BOMB_RADIUS_REDUCTION)
        minimumRadius == p.m_originalRadius
    IN  IF newRadius > minimumRadius
        THEN IF ValidateRadius(newRadius)
             THEN [SetRadius(p, newRadius) EXCEPT
                      !.m_sizeScale = DivK(newRadius, p.m_originalRadius),
                      !.m_canUseBomb = FALSE]
             ELSE p
        ELSE IF ValidateRadius(minimumRadius)
             THEN [SetRadius(p, minimumRadius) EXCEPT
                      !.m_sizeScale = 1000, !.m_canUseBomb = FALSE]
             ELSE p

\* Player::HandleBombInput: the player it leaves.
HandleBombInputPlayer(p, spacePressed) ==
    IF spacePressed /\ p.m_canUseBomb THEN BombShrink(p) ELSE p

\* Player::HandleBombInput: the pool it leaves (CreateExplosion at the top of
\* the player's circle).
HandleBombInputPool(p, spacePressed, pool, maxCount, lives) ==
    IF spacePressed /\ p.m_canUseBomb
    THEN CreateExplosion(pool, maxCount, <<p.x, p.y - p.radius>>, lives)
    ELSE pool

\* Player::Player: TRUE when none of its validations throws.
PlayerCtorOk(radius, scale) ==
    ValidateRadius(MulK(radius, scale)) /\ ValidateScale(scale)

\* Player::Player.
NewPlayer(x, y, radius, scale) ==
    [kind |-> "Player", x |-> x, y |-> y, radius |-> MulK(radius, scale),
     m_originalRadius |-> radius, m_sizeScale |-> scale,
     m_canUseBomb |-> FALSE, m_killCount |-> 0]

\* Enemy::Enemy (the Entity part).
NewEnemy(x, y, radius) == [kind |-> "Enemy", x |-> x, y |-> y, radius |-> radius]

(***************************************************************************)
(* Game: menus, options and the frame loop (Game.hpp, Game.cpp)            *)
(* A Game is a record of the members the handlers read and write; the keys *)
(* of a frame are the set of keys IsKeyPressed reports, W/S/A/D and the    *)
(* keypad Enter folded into Up/Down/Left/Right and Enter.                  *)
(***************************************************************************)

\* Game::START_TEXTURE_SCALE 2.0 and MAX_ENTITY_SCALE 4.0 (thousandths),
\* TEXTURE_RESOLUTION 16 pixels (tenths), COLOR_COUNT.
START_TEXTURE_SCALE == 2000
MAX_ENTITY_SCALE == 4000
TEXTURE_RESOLUTION == 160
COLOR_COUNT == 25

\* Game::COLOR_OPTIONS as <<r, g, b, a>>: the 24 initialisers of the array
\* (the default sky colour, then BLACK, WHITE, GREEN, BLUE, YELLOW, ORANGE,
\* PURPLE, BROWN, DARKGRAY, GRAY, LIGHTGRAY, PINK, MAGENTA, DARKGREEN,
\* DARKBLUE, DARKPURPLE, DARKBROWN, RAYWHITE, GOLD, LIME, BEIGE, SKYBLUE,
\* VIOLET) and the value-initialised 25th element.
COLOR_OPTIONS ==
    << <<0, 169, 212, 255>>, <<0, 0, 0, 255>>, <<255, 255, 255, 255>>,
       <<0, 228, 48, 255>>, <<0, 121, 241, 255>>, <<253, 249, 0, 255>>,
       <<255, 161, 0, 255>>, <<200, 122, 255, 255>>, <<127, 106, 79, 255>>,
       <<80, 80, 80, 255>>, <<130, 130, 130, 255>>, <<200, 200, 200, 255>>,
       <<255, 109, 194, 255>>, <<255, 0, 255, 255>>, <<0, 117, 44, 255>>,
       <<0, 82, 172, 255>>, <<112, 31, 126, 255>>, <<76, 63, 47, 255>>,
       <<245, 245, 245, 255>>, <<255, 203, 0, 255>>, <<0, 158, 47, 255>>,
       <<211, 176, 131, 255>>, <<102, 191, 255, 255>>, <<135, 60, 190, 255>>,
       <<0, 0, 0, 0>> >>

\* Game::AreColorsEqual.
AreColorsEqual(color1, color2) ==
    /\ color1[1] = color2[1]
    /\ color1[2] = color2[2]
    /\ color1[3] = color2[3]
    /\ color1[4] = color2[4]

\* The search loop of both cycling functions: the zero-based index of the
\* first option equal to color, 0 when there is none.
RECURSIVE CurrentColorIndex(_, _)
CurrentColorIndex(color, i) ==
    IF i >= COLOR_COUNT THEN 0
    ELSE IF AreColorsEqual(color, COLOR_OPTIONS[i + 1]) THEN i
    ELSE CurrentColorIndex(color, i + 1)

\* Game::CycleToNextBackgroundColor: the new m_backgroundColor.
CycleToNextBackgroundColor(color) ==
    COLOR_OPTIONS[((CurrentColorIndex(color, 0) + 1) % COLOR_COUNT) + 1]

\* CycleToPreviousBackgroundColor stopping at the first option.
CycleToPreviousBackgroundColor_Clamped(color) ==
    LET currentIndex == CurrentColorIndex(color, 0)
    IN  COLOR_OPTIONS[(IF currentIndex = 0 THEN 0 ELSE currentIndex - 1) + 1]

\* Game::CycleToPreviousBackgroundColor: the new m_backgroundColor.  The
\* unsigned (currentIndex - 1 + COLOR_COUNT) % COLOR_COUNT wraps to the same
\* value as the integer expression.
CycleToPreviousBackgroundColor(color) ==
    COLOR_OPTIONS[((CurrentColorIndex(color, 0) - 1 + COLOR_COUNT) % COLOR_COUNT) + 1]

\* m_player after reset().
NoPlayer == [kind |-> "none"]

\* The member initialisers m_enemySpawnInterval{4.0f}, in milliseconds, and
\* m_gameHardness{0.5f}, in thousandths; MAX_GAME_HARDNESS 1.0.
START_SPAWN_INTERVAL == 4000
START_GAME_HARDNESS == 500
MAX_GAME_HARDNESS == 1000

\* The members of a Game after construction.  m_enemies is the size of the
\* enemy list, m_enemyScale is in thousandths, the two spawn members and
\* enemyBuffTimer (the static local of UpdateGame) are in milliseconds.
NewGame ==
    [m_currentGameState |-> "MainMenu", m_shouldExit |-> FALSE,
     m_resetGame |-> FALSE, m_musicEnabled |-> TRUE, m_soundEnabled |-> TRUE,
     m_selectedMainMenuOption |-> 0, m_selectedOptionsMenuOption |-> 0,
     m_selectedGameOverMenuOption |-> 0, m_selectedExitMenuOption |-> 0,
     m_maxEnemies |-> 5, m_backgroundColor |-> <<0, 169, 212, 255>>,
     m_player |-> NoPlayer, m_enemies |-> 0,
     m_enemyScale |-> START_TEXTURE_SCALE, m_enemySpawnTimer |-> 0,
     m_enemySpawnInterval |-> START_SPAWN_INTERVAL,
     m_gameHardness |-> START_GAME_HARDNESS, enemyBuffTimer |-> 0]

\* IsKeyPressed(KEY_ENTER) || IsKeyPressed(KEY_KP_ENTER) || IsKeyPressed(KEY_SPACE).
SelectPressed(keys) == "Enter" \in keys \/ "Space" \in keys

\* The Up and Down steps of a menu of count options.
MenuUp(selected, count) == IF selected = 0 THEN count - 1 ELSE selected - 1
MenuDown(selected, count) == IF selected = count - 1 THEN 0 ELSE selected + 1

\* Game::InitializeEntities: the enemy list it clears and the player it
\* creates.
InitializeEntities(g) ==
    [g EXCEPT !.m_enemies = 0,
              !.m_player = NewPlayer(0, 0, TEXTURE_RESOLUTION, START_TEXTURE_SCALE)]

\* Game::ResetGame.
ResetGame(g) ==
    [g EXCEPT !.m_player = NoPlayer, !.m_enemies = 0,
              !.m_enemyScale = START_TEXTURE_SCALE, !.m_enemySpawnTimer = 0,
              !.m_enemySpawnInterval = START_SPAWN_INTERVAL,
              !.m_gameHardness = START_GAME_HARDNESS]

\* Game::RestartGame.
RestartGame(g) ==
    [InitializeEntities(ResetGame(g)) EXCEPT !.m_currentGameState = "Playing"]

\* SetGameOver leaving the game-over menu's selection where it was.
SetGameOver_KeepSelection(g) == [g EXCEPT !.m_currentGameState = "GameOver"]

\* Game::SetGameOver.
SetGameOver(g) ==
    [g EXCEPT !.m_selectedGameOverMenuOption = 0, !.m_currentGameState = "GameOver"]

\* Game::HandleMainMenuInput.
HandleMainMenuInput(g, keys) ==
    LET g1 == IF "Up" \in keys
              THEN [g EXCEPT !.m_selectedMainMenuOption = MenuUp(@, 4)] ELSE g
        g2 == IF "Down" \in keys
              THEN [g1 EXCEPT !.m_selectedMainMenuOption = MenuDown(@, 4)] ELSE g1
        g3 == IF ~SelectPressed(keys) THEN g2
              ELSE IF g2.m_selectedMainMenuOption = 0
                   THEN InitializeEntities([g2 EXCEPT !.m_currentGameState = "Playing"])
              ELSE IF g2.m_selectedMainMenuOption = 1
                   THEN [g2 EXCEPT !.m_currentGameState = "Controls"]
              ELSE IF g2.m_selectedMainMenuOption = 2
                   THEN [g2 EXCEPT !.m_currentGameState = "Options"]
              ELSE [g2 EXCEPT !.m_currentGameState = "AskExit"]
    IN  IF "Esc" \in keys THEN [g3 EXCEPT !.m_currentGameState = "AskExit"] ELSE g3

\* HandleControlsMenuInput leaving for the game instead of the main menu.
HandleControlsMenuInput_ToPlaying(g, keys) ==
    IF "Esc" \in keys \/ SelectPressed(keys)
    THEN [g EXCEPT !.m_currentGameState = "Playing"] ELSE g

\* Game::HandleControlsMenuInput.
HandleControlsMenuInput(g, keys) ==
    IF "Esc" \in keys \/ SelectPressed(keys)
    THEN [g EXCEPT !.m_currentGameState = "MainMenu"] ELSE g

\* The switch of HandleOptionsMenuInput under Left (step = -1) or Right
\* (step = 1).
ModifyOption(g, step) ==
    IF g.m_selectedOptionsMenuOption = 0
    THEN IF step < 0
         THEN IF g.m_maxEnemies > 1 THEN [g EXCEPT !.m_maxEnemies = @ - 1] ELSE g
         ELSE IF g.m_maxEnemies < 20 THEN [g EXCEPT !.m_maxEnemies = @ + 1] ELSE g
    ELSE IF g.m_selectedOptionsMenuOption = 1
    THEN [g EXCEPT !.m_backgroundColor =
             IF step < 0 THEN CycleToPreviousBackgroundColor(@)
             ELSE CycleToNextBackgroundColor(@)]
    ELSE IF g.m_selectedOptionsMenuOption = 2
    THEN [g EXCEPT !.m_musicEnabled = ~@]
    ELSE [g EXCEPT !.m_soundEnabled = ~@]

\* Game::HandleOptionsMenuInput.
HandleOptionsMenuInput(g, keys) ==
    LET g1 == IF "Up" \in keys
              THEN [g EXCEPT !.m_selectedOptionsMenuOption = MenuUp(@, 4)] ELSE g
        g2 == IF "Down" \in keys
              THEN [g1 EXCEPT !.m_selectedOptionsMenuOption = MenuDown(@, 4)] ELSE g1
        g3 == IF "Left" \in keys THEN ModifyOption(g2, -1) ELSE g2
        g4 == IF "Right" \in keys THEN ModifyOption(g3, 1) ELSE g3
    IN  IF "Esc" \in keys THEN [g4 EXCEPT !.m_currentGameState = "MainMenu"] ELSE g4

\* Game::HandleGameOverMenuInput.
HandleGameOverMenuInput(g, keys) ==
    LET g1 == IF "Up" \in keys
              THEN [g EXCEPT !.m_selectedGameOverMenuOption = IF @ = 0 THEN 1 ELSE 0]
              ELSE g
        g2 == IF "Down" \in keys
              THEN [g1 EXCEPT !.m_selectedGameOverMenuOption = IF @ = 1 THEN 0 ELSE 1]
              ELSE g1
        g3 == IF ~SelectPressed(keys) THEN g2
              ELSE IF g2.m_selectedGameOverMenuOption = 0 THEN RestartGame(g2)
              ELSE [ResetGame(g2) EXCEPT !.m_currentGameState = "MainMenu"]
    IN  IF "Esc" \in keys
        THEN [ResetGame(g3) EXCEPT !.m_currentGameState = "MainMenu"] ELSE g3

\* Game::HandleExitMenuInput.
HandleExitMenuInput(g, keys) ==
    LET g1 == IF "Up" \in keys
              THEN [g EXCEPT !.m_selectedExitMenuOption = IF @ = 0 THEN 1 ELSE 0]
              ELSE g
        g2 == IF "Down" \in keys
              THEN [g1 EXCEPT !.m_selectedExitMenuOption = IF @ = 1 THEN 0 ELSE 1]
              ELSE g1
        g3 == IF ~SelectPressed(keys) THEN g2
              ELSE IF g2.m_selectedExitMenuOption = 0
                   THEN [g2 EXCEPT !.m_shouldExit = TRUE]
              ELSE [g2 EXCEPT !.m_shouldExit = FALSE, !.m_currentGameState = "MainMenu"]
    IN  IF "Esc" \in keys THEN [g3 EXCEPT !.m_shouldExit = TRUE] ELSE g3

\* Game::HandleEnemyCollision: what a collision on the given side does to the
\* player ("None": the circles do not touch, or the side is Bottom).
HandleEnemyCollisionPlayer(p, side) ==
    IF side \in {"Left", "Right"}
    THEN LET counted == [p EXCEPT !.m_killCount = @ + 1]
         IN  IF counted.m_sizeScale < MAX_ENTITY_SCALE THEN GrowLarger(counted)
             ELSE IF ~counted.m_canUseBomb THEN EnableBomb(counted)
             ELSE counted
    ELSE IF side = "Top" THEN TakeDamage(p)
    ELSE p

\* Game::HandleFinishLineCollision: what it does to the player; atFinish is
\* the outcome of its circle-rectangle test on the enemy.  After a Left or
\* Right collision the enemy has been erased by RemoveEnemy and the test
\* reads a destroyed object, so its outcome is any.
HandleFinishLineCollisionPlayer(p, atFinish) ==
    IF atFinish THEN ShrinkSize(p) ELSE p

\* Game::UpdateGame, as far as the player's size and the game state go: bomb
\* input, the early game-over test, then one enemy's collision with the
\* player and with the finish line.
UpdateGame(g, keys, side, atFinish) ==
    IF g.m_player = NoPlayer THEN g
    ELSE LET bombed == [g EXCEPT !.m_player =
                           HandleBombInputPlayer(@, "Space" \in keys)]
         IN  IF bombed.m_player.radius <= TEXTURE_RESOLUTION
             THEN SetGameOver(bombed)
             ELSE [bombed EXCEPT !.m_player =
                      HandleFinishLineCollisionPlayer(
                          HandleEnemyCollisionPlayer(@, side), atFinish)]

\* The pool after UpdateGame: the bomb's CreateExplosion, then Update.
UpdateGamePool(g, keys, pool, maxCount, lives, deltaTime) ==
    IF g.m_player = NoPlayer THEN pool
    ELSE ManagerUpdate(HandleBombInputPool(g.m_player, "Space" \in keys,
                                           pool, maxCount, lives), deltaTime)

\* The Playing case of Game::Run: Escape, then UpdateGame.
RunPlaying(g, keys, side, atFinish) ==
    LET g1 == IF g.m_player # NoPlayer /\ "Esc" \in keys
              THEN [g EXCEPT !.m_currentGameState = "MainMenu", !.m_resetGame = TRUE]
              ELSE g
    IN  UpdateGame(g1, keys, side, atFinish)

\* The MainMenu case of Game::Run.
RunMainMenu(g, keys) ==
    HandleMainMenuInput(
        IF g.m_resetGame THEN [ResetGame(g) EXCEPT !.m_resetGame = FALSE] ELSE g,
        keys)

\* The AskExit case of Game::Run; soundPlaying is what IsSoundPlaying of the
\* exit sound reports.
RunAskExit(g, keys, soundPlaying) ==
    LET g1 == HandleExitMenuInput(g, keys)
    IN  IF g1.m_shouldExit /\ ~soundPlaying
        THEN [g1 EXCEPT !.m_currentGameState = "Exit"] ELSE g1

(***************************************************************************)
(* Ground collision (Game::GetGroundCollisionInfo, HandleGroundCollision,  *)
(* Ground::CheckCollision, Ground::IsInside).  Whole pixels: the code only *)
(* adds, subtracts and compares here.  A body is the Entity part the code  *)
(* reads and writes, with isPlayer for entity == m_player.get(); a ground  *)
(* is its m_bounds rectangle.                                              *)
(***************************************************************************)

\* Ground::CheckCollision(const Circle&): raylib's CheckCollisionCircleRec,
\* with every length doubled to stay in the integers.
CheckCollision(ground, e) ==
    LET dx == Abs(2 * e.x - (2 * ground.x + ground.width))
        dy == Abs(2 * e.y - (2 * ground.y + ground.height))
    IN  IF dx > ground.width + 2 * e.radius THEN FALSE
        ELSE IF dy > ground.height + 2 * e.radius THEN FALSE
        ELSE IF dx <= ground.width THEN TRUE
        ELSE IF dy <= ground.height THEN TRUE
        ELSE (dx - ground.width) * (dx - ground.width)
                + (dy - ground.height) * (dy - ground.height)
                <= 4 * e.radius * e.radius

\* Ground::IsInside(const Circle&).
IsInside(ground, e) ==
    /\ e.x - e.radius >= ground.x
    /\ e.x + e.radius <= ground.x + ground.width
    /\ e.y - e.radius >= ground.y
    /\ e.y + e.radius <= ground.y + ground.height

\* The loop of GetGroundCollisionInfo: the index of the first ground from i
\* on that the body overlaps, 0 when there is none.
RECURSIVE FirstOverlap(_, _, _)
FirstOverlap(groundList, e, i) ==
    IF i > Len(groundList) THEN 0
    ELSE IF CheckCollision(groundList[i], e) THEN i
    ELSE FirstOverlap(groundList, e, i + 1)

\* CollisionInfo{}.
NoCollision ==
    [hasCollision |-> FALSE, side |-> "None", penetrationDepth |-> 0,
     collidedGround |-> 0]

\* GetGroundCollisionInfo with <= in its three comparisons.
GetGroundCollisionInfo_TiesFirst(groundList, e) ==
    LET i == FirstOverlap(groundList, e, 1)
    IN  IF i = 0 THEN NoCollision
        ELSE LET groundBounds == groundList[i]
                 overlapLeft == (e.x + e.radius) - groundBounds.x
                 overlapRight == (groundBounds.x + groundBounds.width) - (e.x - e.radius)
                 overlapTop == (e.y + e.radius) - groundBounds.y
                 overlapBottom == (groundBounds.y + groundBounds.height) - (e.y - e.radius)
                 minOverlapX == Min(overlapLeft, overlapRight)
                 minOverlapY == Min(overlapTop, overlapBottom)
             IN  IF minOverlapX <= minOverlapY
                 THEN IF overlapLeft <= overlapRight
                      THEN [hasCollision |-> TRUE, side |-> "Left",
                            penetrationDepth |-> overlapLeft, collidedGround |-> i]
                      ELSE [hasCollision |-> TRUE, side |-> "Right",
                            penetrationDepth |-> overlapRight, collidedGround |-> i]
                 ELSE IF overlapTop <= overlapBottom
                      THEN [hasCollision |-> TRUE, side |-> "Top",
                            penetrationDepth |-> overlapTop, collidedGround |-> i]
                      ELSE [hasCollision |-> TRUE, side |-> "Bottom",
                            penetrationDepth |-> overlapBottom, collidedGround |-> i]

\* Game::GetGroundCollisionInfo; collidedGround is an index into the list.
GetGroundCollisionInfo(groundList, e) ==
    LET i == FirstOverlap(groundList, e, 1)
    IN  IF i = 0 THEN NoCollision
        ELSE LET groundBounds == groundList[i]
                 overlapLeft == (e.x + e.radius) - groundBounds.x
                 overlapRight == (groundBounds.x + groundBounds.width) - (e.x - e.radius)
                 overlapTop == (e.y + e.radius) - groundBounds.y
                 overlapBottom == (groundBounds.y + groundBounds.height) - (e.y - e.radius)
                 minOverlapX == Min(overlapLeft, overlapRight)
                 minOverlapY == Min(overlapTop, overlapBottom)
             IN  IF minOverlapX < minOverlapY
                 THEN IF overlapLeft < overlapRight
                      THEN [hasCollision |-> TRUE, side |-> "Left",
                            penetrationDepth |-> overlapLeft, collidedGround |-> i]
                      ELSE [hasCollision |-> TRUE, side |-> "Right",
                            penetrationDepth |-> overlapRight, collidedGround |-> i]
                 ELSE IF overlapTop < overlapBottom
                      THEN [hasCollision |-> TRUE, side |-> "Top",
                            penetrationDepth |-> overlapTop, collidedGround |-> i]
                      ELSE [hasCollision |-> TRUE, side |-> "Bottom",
                            penetrationDepth |-> overlapBottom, collidedGround |-> i]

\* The switch of HandleGroundCollision.
ResolveSide(e, side, ground) ==
    IF side = "Top"
    THEN IF e.m_velocityY > 0
         THEN [e EXCEPT !.m_isOnGround = TRUE, !.m_velocityY = 0,
                        !.y = ground.y - e.radius]
         ELSE e
    ELSE IF side = "Left" THEN [e EXCEPT !.x = ground.x - e.radius]
    ELSE IF side = "Right" THEN [e EXCEPT !.x = ground.x + ground.width + e.radius]
    ELSE IF side = "Bottom"
    THEN IF e.m_velocityY < 0
         THEN [e EXCEPT !.m_velocityY = 0,
                        !.y = ground.y + ground.height + e.radius]
         ELSE e
    ELSE e

\* The safety check putting the player's centre, not its bottom edge, on the
\* surface.
SafetyClamp_NoRadius(e, ground) ==
    IF e.isPlayer /\ e.y + e.radius > ground.y
    THEN [e EXCEPT !.y = ground.y, !.m_velocityY = 0, !.m_isOnGround = TRUE]
    ELSE e

\* The safety check that ends HandleGroundCollision.
SafetyClamp(e, ground) ==
    IF e.isPlayer /\ e.y + e.radius > ground.y
    THEN [e EXCEPT !.y = ground.y - e.radius, !.m_velocityY = 0,
                   !.m_isOnGround = TRUE]
    ELSE e

\* HandleGroundCollision without its safety check.
HandleGroundCollision_NoSafety(groundList, e) ==
    IF e.m_canPhase THEN e
    ELSE LET collision == GetGroundCollisionInfo(groundList, e)
         IN  IF ~collision.hasCollision
             THEN [e EXCEPT !.m_isOnGround = FALSE]
             ELSE ResolveSide(e, collision.side, groundList[collision.collidedGround])

\* Game::HandleGroundCollision: the entity it leaves.
HandleGroundCollision(groundList, e) ==
    IF e.m_canPhase THEN e
    ELSE LET collision == GetGroundCollisionInfo(groundList, e)
         IN  IF ~collision.hasCollision
             THEN [e EXCEPT !.m_isOnGround = FALSE]
             ELSE LET ground == groundList[collision.collidedGround]
                  IN  SafetyClamp(ResolveSide(e, collision.side, ground), ground)

(***************************************************************************)
(* The variables of each part at rest.                                     *)
(***************************************************************************)

NoOp == [op |-> "none"]
NoQuery == [asked |-> FALSE]

poolVars == <<m_explosions, m_maxExplosions, poolOp, query>>
explVars == <<expl, explOp, explStarted>>
entVars == <<ent, entOp, entCalls>>
gameVars == <<game, frame>>
groundVars == <<entity, m_grounds, collideOp>>
appVars == <<proc, resize, clash, upd>>
vars == <<m_explosions, m_maxExplosions, poolOp, query, expl, explOp, explStarted,
          ent, entOp, entCalls, game, frame, entity, m_grounds, collideOp,
          proc, resize, clash, upd>>

\* ExplosionManager() = default: an empty pool with the default maximum.
PoolInit ==
    /\ m_explosions = <<>>
    /\ m_maxExplosions = DEFAULT_MAX_EXPLOSIONS
    /\ poolOp = NoOp
    /\ query = NoQuery

\* Explosion(explosionSound): not started.
ExplInit ==
    /\ expl = NewExplosion
    /\ explOp = NoOp
    /\ explStarted = FALSE

\* No entity on its own.
EntIdle ==
    /\ ent = [kind |-> "none"]
    /\ entOp = NoOp
    /\ entCalls = 0

\* No frame run yet.
NoFrame == [state |-> "none", keys |-> {}]

\* A Game just constructed.
GameIdle ==
    /\ game = NewGame
    /\ frame = NoFrame

\* No body, no grounds.
GroundIdle ==
    /\ entity = [kind |-> "none"]
    /\ m_grounds = <<>>
    /\ collideOp = NoOp

\* No process, no resize, no overlap and no frame under study.
AppIdle ==
    /\ proc = [pc |-> "none"]
    /\ resize = [pc |-> "none"]
    /\ clash = [pc |-> "none"]
    /\ upd = [pc |-> "none"]

(***************************************************************************)
(* SpecPool: an ExplosionManager under any sequence of its public calls.   *)
(***************************************************************************)

\* What the random generator hands CreateParticles in the pool's runs: every
\* particle draws MAX_PARTICLE_LIFE.
PoolLives == [i \in 1..NumParticles |-> 3]

AllActive(pool) == \A i \in 1..Len(pool) : pool[i].m_isActive

PoolCreate(position) ==
    /\ ~(AllActive(m_explosions) /\ Len(m_explosions) < m_maxExplosions
           /\ Len(m_explosions) >= MaxSlots)
    /\ m_explosions' = CreateExplosion(m_explosions, m_maxExplosions, position, PoolLives)
    /\ poolOp' = [op |-> "Create", position |-> position]
    /\ query' = NoQuery
    /\ UNCHANGED <<m_maxExplosions, explVars, entVars, gameVars, groundVars, appVars>>

PoolUpdate(deltaTime) ==
    /\ m_explosions' = ManagerUpdate(m_explosions, deltaTime)
    /\ poolOp' = [op |-> "Update", deltaTime |-> deltaTime]
    /\ query' = NoQuery
    /\ UNCHANGED <<m_maxExplosions, explVars, entVars, gameVars, groundVars, appVars>>

\* ExplosionManager::Clear.
PoolClear ==
    /\ m_explosions' = <<>>
    /\ poolOp' = [op |-> "Clear"]
    /\ query' = NoQuery
    /\ UNCHANGED <<m_maxExplosions, explVars, entVars, gameVars, groundVars, appVars>>

\* ExplosionManager::SetMaxExplosions: a maximum out of range throws before
\* anything is written.
PoolSetMax(maxCount) ==
    /\ m_maxExplosions' = IF ValidateMaxExplosions(maxCount)
                          THEN maxCount ELSE m_maxExplosions
    /\ m_explosions' = SetMaxExplosionsPool(m_explosions, maxCount)
    /\ poolOp' = [op |-> "SetMax", maxCount |-> maxCount,
                  threw |-> ~ValidateMaxExplosions(maxCount)]
    /\ query' = NoQuery
    /\ UNCHANGED <<explVars, entVars, gameVars, groundVars, appVars>>

PoolCheck(position, radius) ==
    /\ query' = [asked |-> TRUE, position |-> position, radius |-> radius,
                 hit |-> CheckExplosionDamage(m_explosions, position, radius)]
    /\ poolOp' = [op |-> "Check"]
    /\ UNCHANGED <<m_explosions, m_maxExplosions, explVars, entVars, gameVars, groundVars, appVars>>

PoolNext ==
    \/ \E p \in Positions : PoolCreate(p)
    \/ \E dt \in DeltaTimes : PoolUpdate(dt)
    \/ PoolClear
    \/ \E n \in MaxCounts : PoolSetMax(n)
    \/ \E p \in Positions, r \in TargetRadii : PoolCheck(p, r)

InitPool == PoolInit /\ ExplInit /\ EntIdle /\ GameIdle /\ GroundIdle /\ AppIdle

SpecPool == InitPool /\ [][PoolNext]_vars

(***************************************************************************)
(* SpecExplosion: one Explosion under any sequence of Start and Update.    *)
(***************************************************************************)

LifeDraws == [1..NumParticles -> ParticleLifeChoices]

ExplStart(position, lives) ==
    /\ expl' = ExplosionStart(expl, position, lives)
    /\ explOp' = [op |-> "Start", position |-> position]
    /\ explStarted' = TRUE
    /\ UNCHANGED <<poolVars, entVars, gameVars, groundVars, appVars>>

ExplUpdate(deltaTime) ==
    /\ expl' = ExplosionUpdate(expl, deltaTime)
    /\ explOp' = [op |-> "Update", deltaTime |-> deltaTime]
    /\ UNCHANGED <<explStarted, poolVars, entVars, gameVars, groundVars, appVars>>

ExplNext ==
    \/ \E p \in Positions, lives \in LifeDraws : ExplStart(p, lives)
    \/ \E dt \in DeltaTimes : ExplUpdate(dt)

InitExplosion == PoolInit /\ ExplInit /\ EntIdle /\ GameIdle /\ GroundIdle /\ AppIdle

SpecExplosion == InitExplosion /\ [][ExplNext]_vars

(***************************************************************************)
(* SpecEntity: one Player or Enemy, from its construction on, under any    *)
(* sequence of the calls that write its radius.                            *)
(***************************************************************************)

\* Constructor arguments: texture widths of 5, 16 and 300 pixels and one of
\* 600, start scales 0.25, 1.0 and 4.0 and the invalid 0.05; enemy radii from 0.5
\* to just over 1000 pixels.
PlayerRadii == {50, 160, 3000, 6000}
PlayerScales == {50, 250, 1000, 4000}
EnemyRadii == {5, 320, 10000, 10001}

\* The radii SetRadius is called with.
SetRadiusArgs == {9, 10, 10001}

\* The length of the call sequences explored.
MaxCalls == 5

\* The entities whose constructor returns.
Constructed ==
    {NewPlayer(0, 0, r, s) : <<r, s>> \in
        {a \in PlayerRadii \X PlayerScales : PlayerCtorOk(a[1], a[2])}}
    \cup {NewEnemy(0, 0, r) : r \in {a \in EnemyRadii : ValidateRadius(a)}}

\* The manager handed to HandleBombInput: one whose maximum was set to 1.
EntInit ==
    /\ ent \in Constructed
    /\ entOp = NoOp
    /\ entCalls = 0
    /\ m_explosions = <<>>
    /\ m_maxExplosions = MIN_MAX_EXPLOSIONS
    /\ poolOp = NoOp
    /\ query = NoQuery

EntPlayerCall(op, after) ==
    /\ entCalls < MaxCalls
    /\ entCalls' = entCalls + 1
    /\ ent.kind = "Player"
    /\ ent' = after
    /\ entOp' = [op |-> op]
    /\ UNCHANGED <<poolVars, explVars, gameVars, groundVars, appVars>>

EntTakeDamage == EntPlayerCall("TakeDamage", TakeDamage(ent))
EntGrowLarger == EntPlayerCall("GrowLarger", GrowLarger(ent))
EntShrinkSize == EntPlayerCall("ShrinkSize", ShrinkSize(ent))
EntResetToOriginalSize == EntPlayerCall("ResetToOriginalSize", ResetToOriginalSize(ent))
EntEnableBomb == EntPlayerCall("EnableBomb", EnableBomb(ent))

EntHandleBombInput(spacePressed) ==
    /\ entCalls < MaxCalls
    /\ entCalls' = entCalls + 1
    /\ ent.kind = "Player"
    /\ ent' = HandleBombInputPlayer(ent, spacePressed)
    /\ m_explosions' = HandleBombInputPool(ent, spacePressed, m_explosions,
                                           m_maxExplosions, PoolLives)
    /\ entOp' = [op |-> "HandleBombInput", spacePressed |-> spacePressed,
                 used |-> spacePressed /\ ent.m_canUseBomb]
    /\ UNCHANGED <<m_maxExplosions, poolOp, query, explVars, gameVars, groundVars, appVars>>

EntSetRadius(radius) ==
    /\ entCalls < MaxCalls
    /\ entCalls' = entCalls + 1
    /\ ent' = SetRadius(ent, radius)
    /\ entOp' = [op |-> "SetRadius", radius |-> radius]
    /\ UNCHANGED <<poolVars, explVars, gameVars, groundVars, appVars>>

EntNext ==
    \/ EntTakeDamage
    \/ EntGrowLarger
    \/ EntShrinkSize
    \/ EntResetToOriginalSize
    \/ EntEnableBomb
    \/ \E sp \in BOOLEAN : EntHandleBombInput(sp)
    \/ \E r \in SetRadiusArgs : EntSetRadius(r)

InitEntity == EntInit /\ ExplInit /\ GameIdle /\ GroundIdle /\ AppIdle

SpecEntity == InitEntity /\ [][EntNext]_vars

(***************************************************************************)
(* SpecOptions: the Options screen, frame after frame, under every set of  *)
(* the keys its handler reads.                                             *)
(***************************************************************************)

OptionsKeys == SUBSET {"Up", "Down", "Left", "Right", "Esc"}

\* The Options screen just entered from the main menu of a new Game.
InitOptions ==
    /\ game = [NewGame EXCEPT !.m_currentGameState = "Options",
                              !.m_selectedMainMenuOption = 2]
    /\ frame = NoFrame
    /\ PoolInit /\ ExplInit /\ EntIdle /\ GroundIdle /\ AppIdle

\* One frame of Game::Run in state Options.
OptionsFrame(keys) ==
    /\ game.m_currentGameState = "Options"
    /\ game' = HandleOptionsMenuInput(game, keys)
    /\ frame' = [state |-> "Options", keys |-> keys]
    /\ UNCHANGED <<poolVars, explVars, entVars, groundVars, appVars>>

\* One frame of Game::Run in state MainMenu.
MainMenuFrame(keys) ==
    /\ game.m_currentGameState = "MainMenu"
    /\ game' = RunMainMenu(game, keys)
    /\ frame' = [state |-> "MainMenu", keys |-> keys]
    /\ UNCHANGED <<poolVars, explVars, entVars, groundVars, appVars>>

\* From the main menu, SpecOptions takes only the way back to Options.
OptionsNext ==
    \/ \E keys \in OptionsKeys : OptionsFrame(keys)
    \/ /\ game.m_selectedMainMenuOption = 2
       /\ MainMenuFrame({"Enter"})

SpecOptions == InitOptions /\ [][OptionsNext]_vars

(***************************************************************************)
(* SpecGame: Game::Run frame after frame from construction, under every    *)
(* set of the menu keys, every outcome of the enemy's collision tests and  *)
(* of IsSoundPlaying.                                                      *)
(***************************************************************************)

GameKeys == SUBSET {"Up", "Down", "Enter", "Space", "Esc"}

\* The key presses the Playing case and Player::HandleBombInput read.
PlayingKeys == SUBSET {"Space", "Esc"}

\* GetCollisionSide outcomes that HandleEnemyCollision tells apart.
CollisionSides == {"None", "Top", "Left", "Right"}

\* The kills counted in one game.
MaxKills == 2

\* GetFrameTime, in half seconds.
FrameTime == 1

InitGame == GameIdle /\ PoolInit /\ ExplInit /\ EntIdle /\ GroundIdle /\ AppIdle

ControlsFrame(keys) ==
    /\ game.m_currentGameState = "Controls"
    /\ game' = HandleControlsMenuInput(game, keys)
    /\ frame' = [state |-> "Controls", keys |-> keys]
    /\ UNCHANGED <<poolVars, explVars, entVars, groundVars, appVars>>

PlayingFrame(keys, side, atFinish) ==
    /\ game.m_currentGameState = "Playing"
    /\ side \in {"Left", "Right"} =>
          game.m_player # NoPlayer /\ game.m_player.m_killCount < MaxKills
    /\ game' = RunPlaying(game, keys, side, atFinish)
    /\ m_explosions' = UpdateGamePool(game, keys, m_explosions, m_maxExplosions,
                                      PoolLives, FrameTime)
    /\ frame' = [state |-> "Playing", keys |-> keys]
    /\ UNCHANGED <<m_maxExplosions, poolOp, query, explVars, entVars, groundVars, appVars>>

GameOverFrame(keys) ==
    /\ game.m_currentGameState = "GameOver"
    /\ game' = HandleGameOverMenuInput(game, keys)
    /\ frame' = [state |-> "GameOver", keys |-> keys]
    /\ UNCHANGED <<poolVars, explVars, entVars, groundVars, appVars>>

AskExitFrame(keys, soundPlaying) ==
    /\ game.m_currentGameState = "AskExit"
    /\ game' = RunAskExit(game, keys, soundPlaying)
    /\ frame' = [state |-> "AskExit", keys |-> keys]
    /\ UNCHANGED <<poolVars, explVars, entVars, groundVars, appVars>>

\* In state Options SpecGame presses the keys of GameKeys only; Left and
\* Right are SpecOptions' part.
GameNext ==
    \/ \E keys \in GameKeys : MainMenuFrame(keys)
    \/ \E keys \in GameKeys : ControlsFrame(keys)
    \/ \E keys \in GameKeys : OptionsFrame(keys)
    \/ \E keys \in PlayingKeys, side \in CollisionSides, atFinish \in BOOLEAN :
          PlayingFrame(keys, side, atFinish)
    \/ \E keys \in GameKeys : GameOverFrame(keys)
    \/ \E keys \in GameKeys, soundPlaying \in BOOLEAN : AskExitFrame(keys, soundPlaying)

SpecGame == InitGame /\ [][GameNext]_vars

(***************************************************************************)
(* SpecGround: HandleGroundCollision called on a body and a ground list    *)
(* drawn from small sets, and called again on what it leaves.              *)
(***************************************************************************)

\* Two grounds: a slab 200 wide and 50 high, and a block that overlaps its
\* right end.
Slab == [x |-> 0, y |-> 100, width |-> 200, height |-> 50]
Block == [x |-> 150, y |-> 60, width |-> 100, height |-> 100]
GroundLists == {<<>>, <<Slab>>, <<Slab, Block>>, <<Block, Slab>>}

\* Bodies beside, above, across and inside the grounds, rising, resting and
\* falling.
BodyXs == {-10, 50, 100, 195, 210}
BodyYs == {80, 95, 110, 125, 140, 160}
BodyRadii == {5, 20}
BodyVelocities == {-100, 0, 100}

Bodies ==
    [x : BodyXs, y : BodyYs, radius : BodyRadii, m_velocityY : BodyVelocities,
     m_isOnGround : BOOLEAN, m_canPhase : BOOLEAN, isPlayer : BOOLEAN]

InitGround ==
    /\ entity \in Bodies
    /\ m_grounds \in GroundLists
    /\ collideOp = NoOp
    /\ PoolInit /\ ExplInit /\ EntIdle /\ GameIdle /\ AppIdle

\* One call of Game::HandleGroundCollision; collideOp keeps the body it was
\* called on, the CollisionInfo it computed (none when it returned at the
\* phase test) and the body as the side switch left it, before the safety
\* check.
GroundCollide ==
    /\ entity' = HandleGroundCollision(m_grounds, entity)
    /\ collideOp' =
          LET collision == IF entity.m_canPhase THEN NoCollision
                           ELSE GetGroundCollisionInfo(m_grounds, entity)
          IN  [op |-> "HandleGroundCollision", before |-> entity,
               collision |-> collision,
               afterSwitch |-> IF collision.hasCollision
                               THEN ResolveSide(entity, collision.side,
                                                m_grounds[collision.collidedGround])
                               ELSE entity]
    /\ UNCHANGED <<m_grounds, poolVars, explVars, entVars, gameVars, appVars>>

GroundNext == GroundCollide

SpecGround == InitGround /\ [][GroundNext]_vars

(***************************************************************************)
(* Claims about the explosion pool (SpecPool).                             *)
(***************************************************************************)

\* "distance(explosion centre, target) < blast radius + target radius", the
\* blast radius being what the explosion reports now (GetRadius).
BlastReaches(e, position, radius) ==
    DistanceLess(e.m_position, position, GetRadius(e) + radius * DEFAULT_MAX_DURATION)

\* C2 as written: CheckExplosionDamage returns true if and only if some
\* explosion held by the pool, active or not, has its centre closer to the
\* target than its current blast radius plus the target radius.
C2_AnySlotReaches ==
    query.asked =>
        (query.hit <=> \E i \in 1..Len(m_explosions) :
                          BlastReaches(m_explosions[i], query.position, query.radius))

\* C2, amended: CheckExplosionDamage returns true if and only if some ACTIVE
\* explosion of the pool has its centre closer to the target than its
\* current blast radius plus the target radius; a finished explosion that
\* still sits in the pool never hits.
C2_ActiveSlotReaches ==
    query.asked =>
        (query.hit <=> \E i \in 1..Len(m_explosions) :
                          /\ m_explosions[i].m_isActive
                          /\ BlastReaches(m_explosions[i], query.position, query.radius))

\* C2 witness: a target was hit by a growing blast that its own radius alone
\* would not have reached, while a finished explosion sits on the target.
C2_Witness ==
    /\ query.asked /\ query.hit
    /\ \E i \in 1..Len(m_explosions) :
          /\ m_explosions[i].m_isActive
          /\ m_explosions[i].m_position # query.position
          /\ m_explosions[i].m_timer > 0
    /\ \E i \in 1..Len(m_explosions) :
          /\ ~m_explosions[i].m_isActive
          /\ m_explosions[i].m_position = query.position

\* C3: after any sequence of CreateExplosion, Update, Clear and
\* SetMaxExplosions the pool holds at most m_maxExplosions slots, and the
\* maximum is the default 50 until SetMaxExplosions changes it to a valid one.
C3_PoolWithinMax ==
    /\ Len(m_explosions) <= m_maxExplosions
    /\ m_maxExplosions \in MIN_MAX_EXPLOSIONS..MAX_MAX_EXPLOSIONS
    /\ (poolOp = NoOp => m_maxExplosions = 50)

\* C3 witness: a CreateExplosion that left the pool exactly full under a
\* maximum set by SetMaxExplosions.
C3_Witness ==
    /\ poolOp.op = "Create"
    /\ m_maxExplosions = 2
    /\ Len(m_explosions) = m_maxExplosions

\* C4: a CreateExplosion made while some slot is inactive restarts the first
\* inactive slot in list order (active, timer 0, at the requested position),
\* keeps the number of slots and leaves every other slot as it was; the pool
\* grows only when every slot was active.
C4_ReuseFirstInactive ==
    [][poolOp'.op = "Create" =>
         /\ \A k \in 1..Len(m_explosions) :
               (/\ ~m_explosions[k].m_isActive
                /\ \A j \in 1..(k - 1) : m_explosions[j].m_isActive)
               => /\ Len(m_explosions') = Len(m_explosions)
                  /\ m_explosions'[k].m_isActive
                  /\ m_explosions'[k].m_timer = 0
                  /\ m_explosions'[k].m_position = poolOp'.position
                  /\ \A i \in 1..Len(m_explosions) :
                        i # k => m_explosions'[i] = m_explosions[i]
         /\ Len(m_explosions') > Len(m_explosions) =>
               \A i \in 1..Len(m_explosions) : m_explosions[i].m_isActive
      ]_vars

\* C4 witness: CreateExplosion restarted slot 1 while slot 2, also finished,
\* was left alone.
C4_Witness ==
    /\ poolOp.op = "Create"
    /\ Len(m_explosions) >= 2
    /\ m_explosions[1].m_isActive /\ m_explosions[1].m_timer = 0
    /\ ~m_explosions[2].m_isActive

\* C5: a CreateExplosion made when the pool holds m_maxExplosions slots, all
\* active, changes nothing: no slot is added, removed or restarted.  (The
\* call has no failing path: the drop is a branch that only logs.)
C5_DropAtCapacity ==
    [][(/\ poolOp'.op = "Create"
        /\ Len(m_explosions) = m_maxExplosions
        /\ \A i \in 1..Len(m_explosions) : m_explosions[i].m_isActive)
       => /\ m_explosions' = m_explosions
          /\ m_maxExplosions' = m_maxExplosions
      ]_vars

\* C5 witness: after a CreateExplosion the pool is full of explosions that
\* are all running and all older than the call: the request was dropped.
C5_Witness ==
    /\ poolOp.op = "Create"
    /\ Len(m_explosions) = m_maxExplosions
    /\ \A i \in 1..Len(m_explosions) :
          m_explosions[i].m_isActive /\ m_explosions[i].m_timer > 0

(***************************************************************************)
(* Claims about one explosion (SpecExplosion).                             *)
(***************************************************************************)

\* C9: an Update with positive deltaTime never raises a particle's alpha,
\* and a Start puts every particle at alpha 255; at all times alpha is
\* floor(255 * max(0, life / maxLife)).
C9_AlphaNonIncreasing ==
    [][/\ (explOp'.op = "Update" /\ explOp'.deltaTime > 0) =>
             \A i \in 1..Len(expl.m_particles) :
                expl'.m_particles[i].color.a <= expl.m_particles[i].color.a
       /\ explOp'.op = "Start" =>
             \A i \in 1..Len(expl'.m_particles) :
                expl'.m_particles[i].color.a = 255
       /\ \A i \in 1..Len(expl'.m_particles) :
             expl'.m_particles[i].color.a =
                (255 * Max(0, expl'.m_particles[i].life))
                   \div expl'.m_particles[i].maxLife
      ]_vars

\* C9 witness: after an Update one particle is part faded and another, whose
\* life has run out, is at alpha 0.
C9_Witness ==
    /\ explOp.op = "Update"
    /\ \E i \in 1..Len(expl.m_particles) :
          expl.m_particles[i].color.a \in 1..254
    /\ \E i \in 1..Len(expl.m_particles) :
          expl.m_particles[i].life <= 0 /\ expl.m_particles[i].color.a = 0

\* C10: after any sequence of Start and Update the explosion is in its damage
\* phase if and only if it has been started and its timer is below its
\* maximum duration.
C10_DamagePhase ==
    IsInDamagePhase(expl) <=> (explStarted /\ expl.m_timer < DEFAULT_MAX_DURATION)

\* C10 witness: an Update brought a started explosion's timer exactly to its
\* maximum duration, which ended its damage phase.
C10_Witness ==
    /\ explOp.op = "Update"
    /\ explStarted
    /\ expl.m_timer = DEFAULT_MAX_DURATION
    /\ ~IsInDamagePhase(expl)

(***************************************************************************)
(* Claims about an entity's radius (SpecEntity).                           *)
(***************************************************************************)

\* C1: after construction and after any sequence of TakeDamage, GrowLarger,
\* ShrinkSize, ResetToOriginalSize, bomb use and SetRadius, the radius of a
\* Player or an Enemy lies in [MIN_RADIUS, MAX_RADIUS] = [1, 1000] pixels.
C1_RadiusWithinBounds ==
    /\ ent.kind \in {"Player", "Enemy"}
    /\ ent.radius >= 10
    /\ ent.radius <= 10000

\* C1 witness: a TakeDamage, a GrowLarger or a bomb whose new radius fell
\* outside [1, 1000] and was refused, the radius staying as it was.
C1_Witness ==
    /\ ent.kind = "Player"
    /\ \/ /\ entOp.op = "TakeDamage"
          /\ MulK(ent.m_originalRadius, ent.m_sizeScale) < 10
       \/ /\ entOp.op = "GrowLarger"
          /\ MulK(ent.m_originalRadius, ent.m_sizeScale) > 10000
    /\ ent.radius # MulK(ent.m_originalRadius, ent.m_sizeScale)

(***************************************************************************)
(* Claims about the Options screen (SpecOptions).                          *)
(***************************************************************************)

\* C8: background colour cycling wraps at both ends of the option list: Next
\* from the last option gives the first, Previous from the first gives the
\* last, and from the current option Next then Previous, and Previous then
\* Next, give the current option back.
C8_ColorCycleWraps ==
    LET c == game.m_backgroundColor
    IN  /\ \E i \in 1..COLOR_COUNT : c = COLOR_OPTIONS[i]
        /\ c = COLOR_OPTIONS[COLOR_COUNT] =>
              CycleToNextBackgroundColor(c) = COLOR_OPTIONS[1]
        /\ c = COLOR_OPTIONS[1] =>
              CycleToPreviousBackgroundColor(c) = COLOR_OPTIONS[COLOR_COUNT]
        /\ CycleToPreviousBackgroundColor(CycleToNextBackgroundColor(c)) = c
        /\ CycleToNextBackgroundColor(CycleToPreviousBackgroundColor(c)) = c

\* C8 witness: Left alone on the colour row took the first option to the
\* last one of the list.
C8_Witness ==
    /\ frame.state = "Options"
    /\ frame.keys = {"Left"}
    /\ game.m_selectedOptionsMenuOption = 1
    /\ game.m_backgroundColor = COLOR_OPTIONS[COLOR_COUNT]
    /\ CycleToNextBackgroundColor(game.m_backgroundColor) = COLOR_OPTIONS[1]

(***************************************************************************)
(* Claims about the frame loop (SpecGame).                                 *)
(***************************************************************************)

\* C6: in one frame the game state changes only along MainMenu -> Playing,
\* Controls, Options, AskExit; Controls -> MainMenu; Options -> MainMenu;
\* Playing -> MainMenu, GameOver; GameOver -> Playing, MainMenu; AskExit ->
\* MainMenu, Exit; Exit has no successor, and is entered from AskExit only.
C6_StateEdges ==
    [][ /\ game.m_currentGameState # "Exit"
        /\ game'.m_currentGameState # game.m_currentGameState =>
              <<game.m_currentGameState, game'.m_currentGameState>> \in
                 { <<"MainMenu", "Playing">>, <<"MainMenu", "Controls">>,
                   <<"MainMenu", "Options">>, <<"MainMenu", "AskExit">>,
                   <<"Controls", "MainMenu">>, <<"Options", "MainMenu">>,
                   <<"Playing", "MainMenu">>, <<"Playing", "GameOver">>,
                   <<"GameOver", "Playing">>, <<"GameOver", "MainMenu">>,
                   <<"AskExit", "MainMenu">>, <<"AskExit", "Exit">> }
      ]_vars

\* C6 witness: Exit entered from AskExit in a frame where "No" was selected
\* and Enter and Escape were both pressed.
C6_Witness ==
    /\ game.m_currentGameState = "Exit"
    /\ frame.state = "AskExit"
    /\ {"Enter", "Esc"} \subseteq frame.keys
    /\ game.m_selectedExitMenuOption = 1

(***************************************************************************)
(* Claims about ground collision (SpecGround).                             *)
(***************************************************************************)

\* The ground the last call collided with.
CollidedGround == m_grounds[collideOp.collision.collidedGround]

\* The last call moved the body out: side Left or Right, Top while falling,
\* Bottom while rising.
Resolved ==
    \/ collideOp.collision.side \in {"Left", "Right"}
    \/ collideOp.collision.side = "Top" /\ collideOp.before.m_velocityY > 0
    \/ collideOp.collision.side = "Bottom" /\ collideOp.before.m_velocityY < 0

\* C7 as stated: for a non-phasing entity, after a call of
\* HandleGroundCollision that detected an overlap with a ground, the entity's
\* circle is not fully inside that ground.
C7_NeverLeftInside ==
    (collideOp.op = "HandleGroundCollision" /\ collideOp.collision.hasCollision)
        => ~IsInside(CollidedGround, entity)

\* C7 amended: for a non-phasing entity, after a call of
\* HandleGroundCollision that detected an overlap with a ground, the entity's
\* circle is not fully inside that ground provided the call resolved the
\* collision (side Left or Right, Top while moving down, Bottom while moving
\* up) or the entity is the player.
C7_ResolvedOrPlayerNotInside ==
    (/\ collideOp.op = "HandleGroundCollision"
     /\ collideOp.collision.hasCollision
     /\ (Resolved \/ collideOp.before.isPlayer))
        => ~IsInside(CollidedGround, entity)

\* C7 witness: the player, fully inside a ground and not falling, collided
\* on the ground's Top side and the call put it on the surface.
C7_Witness ==
    /\ collideOp.op = "HandleGroundCollision"
    /\ collideOp.collision.hasCollision
    /\ collideOp.collision.side = "Top"
    /\ collideOp.before.isPlayer
    /\ collideOp.before.m_velocityY <= 0
    /\ IsInside(CollidedGround, collideOp.before)
    /\ entity.y = CollidedGround.y - entity.radius

\* C15: in the Playing state, with a player present, a frame in which Escape
\* is pressed ends with the game in the MainMenu state.
C15_EscapeEndsInMainMenu ==
    [][(/\ game.m_currentGameState = "Playing"
        /\ game.m_player # NoPlayer
        /\ frame'.state = "Playing"
        /\ "Esc" \in frame'.keys)
       => game'.m_currentGameState = "MainMenu"
      ]_vars

\* C18: after HandleGroundCollision ran on the player and detected an overlap
\* with a ground, whatever the side and the velocity, the player's bottom
\* edge (y + radius) is at or above that ground's top edge (ground y).
C18_PlayerBottomOnOrAboveSurface ==
    (/\ collideOp.op = "HandleGroundCollision"
     /\ collideOp.collision.hasCollision
     /\ collideOp.before.isPlayer)
        => entity.y + entity.radius <= CollidedGround.y

\* C18 witness: the player, rising, collided on the Bottom side; the switch
\* put it under the ground and the safety check put it back on the surface.
C18_Witness ==
    /\ collideOp.op = "HandleGroundCollision"
    /\ collideOp.collision.hasCollision
    /\ collideOp.collision.side = "Bottom"
    /\ collideOp.before.isPlayer
    /\ collideOp.before.m_velocityY < 0
    /\ collideOp.afterSwitch.y = CollidedGround.y + CollidedGround.height + entity.radius
    /\ entity.y + entity.radius = CollidedGround.y

\* The four depths GetGroundCollisionInfo compares, for body e and ground g.
DepthLeft(e, g) == (e.x + e.radius) - g.x
DepthRight(e, g) == (g.x + g.width) - (e.x - e.radius)
DepthTop(e, g) == (e.y + e.radius) - g.y
DepthBottom(e, g) == (g.y + g.height) - (e.y - e.radius)

PLAYER_PATHS == <<"Gobo0.png", "Gobo1.png", "Gobo2.png">>
ENEMY_PATHS == <<"Brother0.png", "Brother1.png", "Brother2.png", "Brother3.png">>
TEXTURE_PATHS == <<"Ground.png", "FinishLine.png">>
SOUND_PATHS == <<"explosion.wav", "LoseSound.wav", "HoverOnButtonSound.wav",
                 "OpenButtonSound.wav", "BackButtonSound.wav", "NO!.wav",
                 "Disappointing.wav">>
MUSIC_PATHS == <<"Gobo's Run Sound.wav", "music.mp3">>
AssetOrder == PLAYER_PATHS \o ENEMY_PATHS \o TEXTURE_PATHS \o SOUND_PATHS \o MUSIC_PATHS

Range(s) == {s[i] : i \in 1..Len(s)}

\* The assets kept in m_playerTextures and m_enemyTextures; the others are
\* kept in a member of their own.
VectorAssets == Range(PLAYER_PATHS) \cup Range(ENEMY_PATHS)
Resources == {"window", "audio"} \cup Range(AssetOrder)

\* The process before main's first statement: nothing acquired, every asset
\* member value-initialised (id and frameCount 0), m_isInitialized false.
NewProcess ==
    [pc |-> "InitWindow",
     windowReady |-> FALSE,
     audioReady |-> FALSE,
     held |-> {},                 \* assets whose member or vector slot is non-zero
     loaded |-> 0,                \* how many of AssetOrder LoadAssets has loaded
     m_isInitialized |-> FALSE,
     run |-> "none",              \* "none", "returned" or "threw"
     status |-> "none",           \* the value main's return statement gave
     exit |-> "none",             \* the process's exit code
     acquired |-> [r \in Resources |-> 0],
     released |-> [r \in Resources |-> 0]]

Acquire(p, r) == [p EXCEPT !.acquired[r] = @ + 1]
Release(p, rs) ==
    [p EXCEPT !.released = [r \in Resources |-> IF r \in rs THEN @[r] + 1 ELSE @[r]]]

\* Game::UnloadAssets: every texture of the two vectors is unloaded and the
\* vectors are cleared; every other member is unloaded when its id or
\* frameCount is not 0, and keeps its value.
UnloadAssets(p) ==
    [Release(p, p.held) EXCEPT !.held = @ \ VectorAssets]

\* if (IsAudioDeviceReady()) CloseAudioDevice(); if (IsWindowReady()) CloseWindow();
CloseDevices(p) ==
    LET a == IF p.audioReady
             THEN [Release(p, {"audio"}) EXCEPT !.audioReady = FALSE] ELSE p
    IN  IF a.windowReady
        THEN [Release(a, {"window"}) EXCEPT !.windowReady = FALSE] ELSE a

\* The catch block of Game::Game: it releases what was acquired, leaves
\* m_isInitialized false and does not rethrow.
CtorCatch(p) ==
    [CloseDevices(UnloadAssets(p)) EXCEPT !.m_isInitialized = FALSE, !.pc = "main"]

\* Game::Game up to the window test, which throws when the window is not
\* ready.
CtorInitWindow(p, ready) ==
    IF ready
    THEN [Acquire(p, "window") EXCEPT !.windowReady = TRUE, !.pc = "InitAudioDevice"]
    ELSE [p EXCEPT !.pc = "catch"]

\* Game::Game from InitAudioDevice to the audio test: a failed audio device
\* closes the window before throwing.
CtorInitAudioDevice(p, ready) ==
    IF ready
    THEN [Acquire(p, "audio") EXCEPT !.audioReady = TRUE, !.pc = "LoadAssets"]
    ELSE [Release(p, {"window"}) EXCEPT !.windowReady = FALSE, !.pc = "catch"]

\* One load of Game::LoadAssets: the next file of AssetOrder.  A failed load
\* returns false and the constructor throws; the last successful load
\* completes the constructor.
LoadAsset(p, ok) ==
    LET r == AssetOrder[p.loaded + 1]
    IN  IF ~ok THEN [p EXCEPT !.pc = "catch"]
        ELSE LET q == [Acquire(p, r) EXCEPT !.held = @ \cup {r}, !.loaded = @ + 1]
             IN  IF q.loaded = Len(AssetOrder)
                 THEN [q EXCEPT !.m_isInitialized = TRUE, !.pc = "main"]
                 ELSE q

\* main after the construction: return -1 when the Game is not initialized,
\* else call Run.
MainTest(p) ==
    IF ~p.m_isInitialized THEN [p EXCEPT !.status = "-1", !.pc = "~Game"]
    ELSE [p EXCEPT !.pc = "Run"]

\* game.Run() returns, and main returns 0; or an exception leaves Run and one
\* of main's handlers returns -1.  Either way the Game is destroyed first.
MainRun(p, threw) ==
    IF threw THEN [p EXCEPT !.run = "threw", !.status = "-1", !.pc = "~Game"]
    ELSE [p EXCEPT !.run = "returned", !.status = "0", !.pc = "~Game"]

\* A release of something already released (a second UnloadTexture,
\* UnloadSound or UnloadMusicStream of the same handle).
ReleasedTwice(p) == \E r \in Resources : p.released[r] > p.acquired[r]

\* Game::~Game, then the process ends.  The outcomes of a second release of
\* the same handle are not defined: the process ends with main's value or
\* abnormally.
Destroy(p) ==
    LET q == CloseDevices(UnloadAssets(p))
    IN  {[q EXCEPT !.exit = q.status, !.pc = "exit"]}
        \cup (IF ReleasedTwice(q)
              THEN {[q EXCEPT !.exit = "abnormal", !.pc = "exit"]} ELSE {})

MainInitWindow ==
    /\ proc.pc = "InitWindow"
    /\ \E ready \in BOOLEAN : proc' = CtorInitWindow(proc, ready)
    /\ UNCHANGED <<poolVars, explVars, entVars, gameVars, groundVars, resize, clash, upd>>

MainInitAudioDevice ==
    /\ proc.pc = "InitAudioDevice"
    /\ \E ready \in BOOLEAN : proc' = CtorInitAudioDevice(proc, ready)
    /\ UNCHANGED <<poolVars, explVars, entVars, gameVars, groundVars, resize, clash, upd>>

MainLoadAsset ==
    /\ proc.pc = "LoadAssets"
    /\ \E ok \in BOOLEAN : proc' = LoadAsset(proc, ok)
    /\ UNCHANGED <<poolVars, explVars, entVars, gameVars, groundVars, resize, clash, upd>>

MainCtorCatch ==
    /\ proc.pc = "catch"
    /\ proc' = CtorCatch(proc)
    /\ UNCHANGED <<poolVars, explVars, entVars, gameVars, groundVars, resize, clash, upd>>

MainIsInitialized ==
    /\ proc.pc = "main"
    /\ proc' = MainTest(proc)
    /\ UNCHANGED <<poolVars, explVars, entVars, gameVars, groundVars, resize, clash, upd>>

MainCallRun ==
    /\ proc.pc = "Run"
    /\ \E threw \in BOOLEAN : proc' = MainRun(proc, threw)
    /\ UNCHANGED <<poolVars, explVars, entVars, gameVars, groundVars, resize, clash, upd>>

MainDestroy ==
    /\ proc.pc = "~Game"
    /\ proc' \in Destroy(proc)
    /\ UNCHANGED <<poolVars, explVars, entVars, gameVars, groundVars, resize, clash, upd>>

MainNext ==
    \/ MainInitWindow
    \/ MainInitAudioDevice
    \/ MainLoadAsset
    \/ MainCtorCatch
    \/ MainIsInitialized
    \/ MainCallRun
    \/ MainDestroy

InitMain ==
    /\ proc = NewProcess
    /\ resize = [pc |-> "none"]
    /\ clash = [pc |-> "none"]
    /\ upd = [pc |-> "none"]
    /\ PoolInit /\ ExplInit /\ EntIdle /\ GameIdle /\ GroundIdle

SpecMain == InitMain /\ [][MainNext]_vars

\* C12: over the lifetime of a Game, on the successful path and on every
\* failed-initialization path, no resource (window, audio device, texture,
\* sound, music stream) is released more often than it was acquired, and
\* when the process ends each acquired resource has been released exactly
\* once.
C12_ReleasedExactlyOnce ==
    proc.pc # "none" =>
        /\ \A r \in Resources : proc.released[r] <= proc.acquired[r]
        /\ proc.pc = "exit" =>
              \A r \in Resources : proc.acquired[r] <= 1
                                   /\ proc.released[r] = proc.acquired[r]

\* C14: the exit code is 0 exactly when the Game initialized and Run returned
\* normally; it is -1 when initialization failed, and Run was then never
\* called, or when an exception left Run.
C14_ExitCode ==
    proc.pc = "exit" =>
        /\ proc.exit = "0" <=> (proc.m_isInitialized /\ proc.run = "returned")
        /\ ~proc.m_isInitialized => (proc.exit = "-1" /\ proc.run = "none")
        /\ proc.run = "threw" => proc.exit = "-1"

(***************************************************************************)
(* SpecResize: Game::Run's frame loop under window resizes.  Widths are in  *)
(* whole pixels, heights and y in tenths of a pixel, the ground's x in     *)
(* half pixels.  resize.pc is "loop" while Run is in its loop and "thrown" *)
(* once an exception has left Run.                                         *)
(***************************************************************************)

MIN_DIMENSION == 1
MAX_DIMENSION == 10000
INITIAL_WINDOW_WIDTH == 854
INITIAL_WINDOW_HEIGHT == 480

\* Ground::ValidateDimensions: TRUE when it returns, FALSE when it throws
\* std::invalid_argument.
ValidateDimensions(width, heightTenths) ==
    /\ width >= MIN_DIMENSION /\ width <= MAX_DIMENSION
    /\ heightTenths >= 10 * MIN_DIMENSION /\ heightTenths <= 10 * MAX_DIMENSION

\* static_cast<int>(m_currentWindowWidth * 1.5f), for a width of 0 or more.
MapWidth(width) == (3 * width) \div 2

\* Game::GetGroundHeight, in tenths: Clamp(0.20 h, 60, 0.30 h), where Clamp
\* applies the minimum first and the maximum last.
GetGroundHeight(height) == Min(Max(2 * height, 600), 3 * height)

\* The Rectangle Run and CreateGrounds hand the main ground.
GroundBounds(width, height, mapWidth) ==
    [x |-> width - mapWidth,
     y |-> 10 * height - GetGroundHeight(height),
     width |-> mapWidth,
     height |-> GetGroundHeight(height)]

\* Game::CreateGrounds inside InitializeEntities: no ground for an empty
\* window, else the Ground constructor, which validates the size.
CreateGrounds(r) ==
    LET mapWidth == MapWidth(r.m_currentWindowWidth)
        bounds == GroundBounds(r.m_currentWindowWidth, r.m_currentWindowHeight, mapWidth)
        r1 == [r EXCEPT !.m_mapWidth = mapWidth, !.m_grounds = <<>>]
    IN  IF r.m_currentWindowWidth <= 0 \/ r.m_currentWindowHeight <= 0 THEN r1
        ELSE IF ValidateDimensions(bounds.width, bounds.height)
        THEN [r1 EXCEPT !.m_grounds = <<bounds>>]
        ELSE [r1 EXCEPT !.pc = "thrown", !.threwIn = "CreateGrounds"]

\* Ground::SetBounds on m_grounds[0]: validate, then store.
SetBounds(r, newBounds) ==
    IF ValidateDimensions(newBounds.width, newBounds.height)
    THEN [r EXCEPT !.m_grounds[1] = newBounds]
    ELSE [r EXCEPT !.pc = "thrown", !.threwIn = "SetBounds"]

\* The resize handling at the top of Run's loop body.  No handler in Run
\* catches what SetBounds throws.  (FinishLine::SetPosition stores the
\* position without a test; the finish line is left out.)
HandleResize(r, newWidth, newHeight) ==
    IF newWidth = r.m_currentWindowWidth /\ newHeight = r.m_currentWindowHeight
    THEN r
    ELSE LET r1 == [r EXCEPT !.m_currentWindowWidth = newWidth,
                             !.m_currentWindowHeight = newHeight,
                             !.m_mapWidth = MapWidth(newWidth)]
         IN  IF r1.m_currentGameState = "Playing" /\ r1.m_grounds # <<>>
             THEN SetBounds(r1, GroundBounds(newWidth, newHeight, r1.m_mapWidth))
             ELSE r1

\* The state switch of Run's loop body, as far as it touches the grounds:
\* MainMenu runs the pending ResetGame and Play starts the game through
\* InitializeEntities; Escape in Playing asks for the reset and goes back.
StateUpdate(r, key) ==
    IF r.m_currentGameState = "MainMenu"
    THEN LET r1 == IF r.m_resetGame
                   THEN [r EXCEPT !.m_grounds = <<>>, !.m_resetGame = FALSE] ELSE r
         IN  IF key = "Enter"
             THEN CreateGrounds([r1 EXCEPT !.m_currentGameState = "Playing"])
             ELSE r1
    ELSE IF key = "Esc"
         THEN [r EXCEPT !.m_currentGameState = "MainMenu", !.m_resetGame = TRUE]
         ELSE r

\* One pass of Run's loop body with the window size the framework reports.
RunFrame(r, newWidth, newHeight, key) ==
    LET r0 == [r EXCEPT !.frameState = r.m_currentGameState,
                        !.resized = (newWidth # r.m_currentWindowWidth
                                     \/ newHeight # r.m_currentWindowHeight)]
        r1 == HandleResize(r0, newWidth, newHeight)
    IN  IF r1.pc = "thrown" THEN r1 ELSE StateUpdate(r1, key)

\* Game::Game on the successful path: the initial window, the main menu.
NewRun ==
    [pc |-> "loop",
     m_currentGameState |-> "MainMenu",
     m_resetGame |-> FALSE,
     m_currentWindowWidth |-> INITIAL_WINDOW_WIDTH,
     m_currentWindowHeight |-> INITIAL_WINDOW_HEIGHT,
     m_mapWidth |-> MapWidth(INITIAL_WINDOW_WIDTH),
     m_grounds |-> <<>>,
     frameState |-> "none",       \* the state the last frame started in
     resized |-> FALSE,           \* the last frame saw a new window size
     threwIn |-> "none"]

\* The window sizes the framework reports: the initial one, a minimised
\* window, very low windows, a full-HD one and the widest ones around the
\* ground's MAX_DIMENSION.
WindowWidths == {0, INITIAL_WINDOW_WIDTH, 1920, 6667, 6668}
WindowHeights == {0, 3, 4, INITIAL_WINDOW_HEIGHT, 1080}
FrameKeys == {"none", "Enter", "Esc"}

ResizeRunFrame ==
    /\ resize.pc = "loop"
    /\ \E newWidth \in WindowWidths, newHeight \in WindowHeights, key \in FrameKeys :
          resize' = RunFrame(resize, newWidth, newHeight, key)
    /\ UNCHANGED <<poolVars, explVars, entVars, gameVars, groundVars, proc, clash, upd>>

ResizeNext == ResizeRunFrame

InitResize ==
    /\ resize = NewRun
    /\ proc = [pc |-> "none"]
    /\ clash = [pc |-> "none"]
    /\ upd = [pc |-> "none"]
    /\ PoolInit /\ ExplInit /\ EntIdle /\ GameIdle /\ GroundIdle

SpecResize == InitResize /\ [][ResizeNext]_vars

\* C13: a frame that starts in Playing and sees a new window size, whatever
\* the size, does not end with an exception leaving Run's loop.
C13_ResizeNeverLeavesLoop ==
    (resize.pc # "none" /\ resize.frameState = "Playing" /\ resize.resized)
        => resize.pc = "loop"

(***************************************************************************)
(* SpecCollide: Game::HandleEnemyCollision on the player and one enemy.    *)
(* Centres are in whole pixels, radii in tenths, m_gameHardness in         *)
(* thousandths.                                                            *)
(***************************************************************************)

JUMP_FORCE == -550

\* raylib's CheckCollisionCircles: the centres are no further apart than the
\* sum of the radii.
CheckCollisionCircles(c1, c2) ==
    100 * ((c2.x - c1.x) * (c2.x - c1.x) + (c2.y - c1.y) * (c2.y - c1.y))
        <= (c1.radius + c2.radius) * (c1.radius + c2.radius)

\* GetCollisionSide with >= in place of >.
GetCollisionSide_OrEqual(circle1, circle2, hardness) ==
    LET deltaX == circle2.x - circle1.x
        deltaY == circle2.y - circle1.y
    IN  IF Abs(deltaX) * 1000 >= Abs(deltaY) * hardness
        THEN IF deltaX > 0 THEN "Right" ELSE "Left"
        ELSE IF deltaY > 0 THEN "Bottom" ELSE "Top"

\* Game::GetCollisionSide.
GetCollisionSide(circle1, circle2, hardness) ==
    LET deltaX == circle2.x - circle1.x
        deltaY == circle2.y - circle1.y
    IN  IF Abs(deltaX) * 1000 > Abs(deltaY) * hardness
        THEN IF deltaX > 0 THEN "Right" ELSE "Left"
        ELSE IF deltaY > 0 THEN "Bottom" ELSE "Top"

\* Entity::Jump.
Jump(e) == [e EXCEPT !.m_velocityY = JUMP_FORCE, !.m_isOnGround = FALSE]

\* Game::HandleEnemyCollision on the enemy at index i of c.m_enemies; last
\* keeps the player and the enemy it was called on and the side it found
\* ("none" without overlap).
HandleEnemyCollision(c, i) ==
    LET enemy == c.m_enemies[i]
        side == GetCollisionSide(c.m_player, enemy, c.m_gameHardness)
        called == [c EXCEPT !.last = [player |-> c.m_player, enemy |-> enemy,
                                      side |-> "none"]]
    IN  IF ~CheckCollisionCircles(c.m_player, enemy) THEN called
        ELSE [called EXCEPT
                 !.last.side = side,
                 !.m_player = HandleEnemyCollisionPlayer(@, side),
                 !.m_enemies = IF side \in {"Left", "Right"}
                               THEN SubSeq(@, 1, i - 1) \o SubSeq(@, i + 1, Len(@))
                               ELSE IF side = "Top" THEN [@ EXCEPT ![i] = Jump(@)]
                               ELSE @]

\* The player at the start of a game, after four kills (scale 2.0 grown four
\* times, past MAX_ENTITY_SCALE) and after a fifth (the bomb enabled).
GrownPlayer ==
    GrowLarger(GrowLarger(GrowLarger(GrowLarger(
        NewPlayer(0, 0, TEXTURE_RESOLUTION, START_TEXTURE_SCALE)))))
ClashPlayers ==
    {NewPlayer(0, 0, TEXTURE_RESOLUTION, START_TEXTURE_SCALE),
     GrownPlayer, EnableBomb(GrownPlayer)}

\* Where the enemy's centre is, relative to the player's, and the values
\* m_gameHardness takes (0.5, one step up, 1.0 and the last step, 0.5 * 1.1^8).
Offsets == {-120, -40, -20, -10, 0, 10, 20, 40, 120}
Hardnesses == {500, 550, 1000, 1072}

NewClash(player, dx, dy, hardness) ==
    [pc |-> "loop",
     m_player |-> player,
     m_enemies |-> <<[kind |-> "Enemy", x |-> dx, y |-> dy,
                      radius |-> MulK(TEXTURE_RESOLUTION, START_TEXTURE_SCALE),
                      m_velocityY |-> 0, m_isOnGround |-> TRUE]>>,
     m_gameHardness |-> hardness,
     last |-> [side |-> "never"]]

\* One call from UpdateGame's enemy loop, which is reached only while the
\* player is above the game-over size.
ClashCollide ==
    /\ clash.pc = "loop"
    /\ clash.m_enemies # <<>>
    /\ clash.m_player.radius > TEXTURE_RESOLUTION
    /\ clash' = HandleEnemyCollision(clash, 1)
    /\ UNCHANGED <<poolVars, explVars, entVars, gameVars, groundVars, proc, resize, upd>>

ClashNext == ClashCollide

InitCollide ==
    /\ \E player \in ClashPlayers, dx \in Offsets, dy \in Offsets, hardness \in Hardnesses :
          clash = NewClash(player, dx, dy, hardness)
    /\ proc = [pc |-> "none"]
    /\ resize = [pc |-> "none"]
    /\ upd = [pc |-> "none"]
    /\ PoolInit /\ ExplInit /\ EntIdle /\ GameIdle /\ GroundIdle

SpecCollide == InitCollide /\ [][ClashNext]_vars

\* The last HandleEnemyCollision call found the player and the enemy
\* overlapping.
Overlapped == clash.pc = "loop" /\ clash.last.side \notin {"never", "none"}
ClashDeltaX == clash.last.enemy.x - clash.last.player.x
ClashDeltaY == clash.last.enemy.y - clash.last.player.y
KillAt(hardness) == Abs(ClashDeltaX) * 1000 > Abs(ClashDeltaY) * hardness
PlayerDamaged ==
    /\ clash.m_player.m_sizeScale < clash.last.player.m_sizeScale
    /\ clash.m_player.radius < clash.last.player.radius
    /\ clash.m_player.m_killCount = clash.last.player.m_killCount
EnemyJumped ==
    /\ Len(clash.m_enemies) = 1
    /\ clash.m_enemies[1].m_velocityY = JUMP_FORCE
    /\ ~clash.m_enemies[1].m_isOnGround
NothingHappened ==
    /\ clash.m_player = clash.last.player
    /\ clash.m_enemies = <<clash.last.enemy>>
HardnessMonotone ==
    \A h1, h2 \in Hardnesses : (h1 <= h2 /\ KillAt(h2)) => KillAt(h1)

\* C20 as stated: on an overlap the enemy is killed (kill count +1, enemy
\* removed, player grows or gains the bomb) exactly when
\* |dx| > |dy| * hardness; else with dy <= 0 the player takes damage and
\* the enemy jumps, and with dy > 0 nothing happens; raising the hardness
\* never turns a non-kill into a kill.
C20_KillGrowsOrGainsBomb ==
    Overlapped =>
        /\ KillAt(clash.m_gameHardness) =>
              /\ clash.m_player.m_killCount = clash.last.player.m_killCount + 1
              /\ clash.m_enemies = <<>>
              /\ \/ clash.m_player.m_sizeScale > clash.last.player.m_sizeScale
                 \/ ~clash.last.player.m_canUseBomb /\ clash.m_player.m_canUseBomb
        /\ (~KillAt(clash.m_gameHardness) /\ ClashDeltaY <= 0) =>
              PlayerDamaged /\ EnemyJumped
        /\ (~KillAt(clash.m_gameHardness) /\ ClashDeltaY > 0) => NothingHappened
        /\ HardnessMonotone

\* C20, amended: as above, but on a kill the player grows when its scale is
\* below MAX_ENTITY_SCALE, else gains the bomb when it has none, else is left
\* as it was but for the kill count.
C20_KillBySide ==
    Overlapped =>
        /\ KillAt(clash.m_gameHardness) =>
              /\ clash.m_player.m_killCount = clash.last.player.m_killCount + 1
              /\ clash.m_enemies = <<>>
              /\ IF clash.last.player.m_sizeScale < MAX_ENTITY_SCALE
                 THEN /\ clash.m_player.m_sizeScale > clash.last.player.m_sizeScale
                      /\ clash.m_player.radius > clash.last.player.radius
                      /\ clash.m_player.m_canUseBomb = clash.last.player.m_canUseBomb
                 ELSE /\ clash.m_player.m_sizeScale = clash.last.player.m_sizeScale
                      /\ clash.m_player.radius = clash.last.player.radius
                      /\ clash.m_player.m_canUseBomb
        /\ (~KillAt(clash.m_gameHardness) /\ ClashDeltaY <= 0) =>
              PlayerDamaged /\ EnemyJumped
        /\ (~KillAt(clash.m_gameHardness) /\ ClashDeltaY > 0) => NothingHappened
        /\ HardnessMonotone

\* C20's case: a kill of an overlapping enemy by a player at full size who
\* already has the bomb, at a hardness under which the same offsets, one
\* step harder, are no kill.
C20_Witness ==
    /\ Overlapped
    /\ KillAt(clash.m_gameHardness)
    /\ clash.last.player.m_canUseBomb
    /\ clash.last.player.m_sizeScale >= MAX_ENTITY_SCALE
    /\ \E h \in Hardnesses : h > clash.m_gameHardness /\ ~KillAt(h)

(***************************************************************************)
(* SpecFrame: the Playing case of Game::Run, from SpawnEnemies to the end  *)
(* of UpdateGame, in three parts: what runs before UpdateGame's enemy      *)
(* loop, one pass of the loop, and the erasure after it.  Enemies are      *)
(* numbers; what the geometry decides for an enemy in its pass (hit by an  *)
(* explosion, side of the overlap with the player, overlap with the finish *)
(* line, below the window) is an input of the pass.  upd.trace lists the   *)
(* calls of the frame in the order they are made, upd.hit the enemies its  *)
(* explosion checks found hit, upd.checked the player's radius at the      *)
(* game-over test, upd.bomb and upd.iter keep what HandleInput and the     *)
(* last pass saw and did.                                                  *)
(***************************************************************************)

MaxFrames == 2
MaxEnemies == 2

Log(u, step, who) == [u EXCEPT !.trace = Append(@, [step |-> step, who |-> who])]

RECURSIVE LogEach(_, _, _)
LogEach(u, step, ids) ==
    IF ids = <<>> THEN u ELSE LogEach(Log(u, step, Head(ids)), step, Tail(ids))

IndexOf(seq, id) ==
    IF \E k \in 1..Len(seq) : seq[k] = id
    THEN CHOOSE k \in 1..Len(seq) : seq[k] = id ELSE 0

EraseAt(seq, k) == SubSeq(seq, 1, k - 1) \o SubSeq(seq, k + 1, Len(seq))

\* Game::RemoveEnemy: erase the enemy when find_if finds it.
RemoveEnemy(u, id) ==
    IF IndexOf(u.m_enemies, id) = 0 THEN u
    ELSE Log([u EXCEPT !.m_enemies = EraseAt(@, IndexOf(@, id))], "RemoveEnemy", id)

\* Game::SpawnEnemies, spawn being the outcome of its timer test.
SpawnEnemies(u, spawn) ==
    IF Len(u.m_enemies) >= MaxEnemies \/ ~spawn THEN u
    ELSE [u EXCEPT !.m_enemies = Append(@, u.nextId), !.nextId = @ + 1]

\* HandleInput asking for an explosion on every press of Space.
HandleInput_EveryPress(u, spacePressed) ==
    LET requested == spacePressed
        p == HandleBombInputPlayer(u.m_player, spacePressed)
    IN  [u EXCEPT
            !.m_player = p,
            !.explosionsRequested = IF requested THEN @ + 1 ELSE @,
            !.bomb = [pressed |-> spacePressed,
                      player |-> u.m_player,
                      requested |-> requested,
                      position |-> IF requested
                                   THEN <<u.m_player.x, u.m_player.y - u.m_player.radius>>
                                   ELSE <<>>,
                      canUseBomb |-> p.m_canUseBomb]]

\* Player::HandleInput's bomb part inside UpdateGame: the request made to
\* the ExplosionManager is counted and its position kept.
HandleInput(u, spacePressed) ==
    LET requested == spacePressed /\ u.m_player.m_canUseBomb
        p == HandleBombInputPlayer(u.m_player, spacePressed)
    IN  [u EXCEPT
            !.m_player = p,
            !.explosionsRequested = IF requested THEN @ + 1 ELSE @,
            !.bomb = [pressed |-> spacePressed,
                      player |-> u.m_player,
                      requested |-> requested,
                      position |-> IF requested
                                   THEN <<u.m_player.x, u.m_player.y - u.m_player.radius>>
                                   ELSE <<>>,
                      canUseBomb |-> p.m_canUseBomb]]

\* The frame with the player's gravity and ground collision run before the
\* enemy AI.
BeforeEnemyLoop_GravityFirst(u, spawn, spacePressed) ==
    LET u0 == [u EXCEPT !.trace = <<>>, !.i = 1, !.enemiesToRemove = <<>>,
                        !.hit = {}, !.iter = [id |-> 0]]
        u1 == SpawnEnemies(u0, spawn)
        u3 == HandleInput(u1, spacePressed)
        u5 == Log(Log(u3, "ApplyGravity", 0), "HandleGroundCollision", 0)
        u2 == LogEach(u5, "ExecuteAI", u5.m_enemies)
        u6 == Log(u2, "ExplosionManager::Update", 0)
        u7 == [u6 EXCEPT !.checked = u6.m_player.radius]
    IN  IF u7.m_player.radius <= TEXTURE_RESOLUTION
        THEN [u7 EXCEPT !.pc = "GameOver", !.game = SetGameOver(@)]
        ELSE [u7 EXCEPT !.pc = "enemies"]

\* Game::Run's Playing case from SpawnEnemies on, and UpdateGame up to its
\* enemy loop: SpawnEnemies, ExecuteAI on every enemy, then in UpdateGame
\* HandleInput, the player's ApplyGravity and HandleGroundCollision, the
\* explosions' Update and the early game-over test.
BeforeEnemyLoop(u, spawn, spacePressed) ==
    LET u0 == [u EXCEPT !.trace = <<>>, !.i = 1, !.enemiesToRemove = <<>>,
                        !.hit = {}, !.iter = [id |-> 0]]
        u1 == SpawnEnemies(u0, spawn)
        u2 == LogEach(u1, "ExecuteAI", u1.m_enemies)
        u3 == HandleInput(u2, spacePressed)
        u5 == Log(Log(u3, "ApplyGravity", 0), "HandleGroundCollision", 0)
        u6 == Log(u5, "ExplosionManager::Update", 0)
        u7 == [u6 EXCEPT !.checked = u6.m_player.radius]
    IN  IF u7.m_player.radius <= TEXTURE_RESOLUTION
        THEN [u7 EXCEPT !.pc = "GameOver", !.game = SetGameOver(@)]
        ELSE [u7 EXCEPT !.pc = "enemies"]

\* The collision part of a pass: HandleEnemyCollision, and RemoveEnemy on a
\* Left or Right side.
CollideWithPlayer(u, id, side) ==
    LET p == HandleEnemyCollisionPlayer(u.m_player, side)
        u1 == Log([u EXCEPT !.m_player = p,
                            !.bombsEnabled =
                                IF p.m_canUseBomb /\ ~u.m_player.m_canUseBomb
                                THEN @ + 1 ELSE @],
                  "HandleEnemyCollision", id)
    IN  IF side \in {"Left", "Right"} THEN RemoveEnemy(u1, id) ELSE u1

\* Game::HandleFinishLineCollision; overlaps is the outcome of its test.
HandleFinishLineCollision(u, id, overlaps) ==
    LET u1 == Log(u, "HandleFinishLineCollision", id)
    IN  IF overlaps
        THEN RemoveEnemy([u1 EXCEPT !.m_player = ShrinkSize(@),
                                    !.iter.shrinks = @ + 1], id)
        ELSE u1

\* Game::HandleEnemyUnderMap; below is the outcome of its test.
HandleEnemyUnderMap(u, id, below) ==
    LET u1 == Log(u, "HandleEnemyUnderMap", id)
    IN  IF below THEN RemoveEnemy(u1, id) ELSE u1

\* One pass of UpdateGame's enemy loop, on m_enemies[i].  HandleEnemyCollision
\* and HandleFinishLineCollision destroy the enemy they remove, and the
\* calls that follow in the pass read it all the same: their tests then
\* have any outcome (staleFinish, staleBelow).  The index moves on by one
\* after the pass, whether or not the list lost the enemy at i.
UpdateEnemy(u, in, staleFinish, staleBelow) ==
    LET id == u.m_enemies[u.i]
        u0 == Log([u EXCEPT !.iter = [id |-> id, in |-> in, player |-> u.m_player,
                                      shrinks |-> 0, stale |-> FALSE]],
                  "CheckExplosionDamage", id)
    IN  IF in.exploded
        THEN [u0 EXCEPT !.m_player.m_killCount = @ + 1,
                        !.enemiesToRemove = Append(@, u.i),
                        !.hit = @ \cup {id},
                        !.i = @ + 1]
        ELSE LET u2 == Log(Log(u0, "ApplyGravity", id), "HandleGroundCollision", id)
                 u3 == CollideWithPlayer(u2, id, in.side)
                 alive3 == IndexOf(u3.m_enemies, id) # 0
                 u4 == HandleFinishLineCollision(
                           u3, id, IF alive3 THEN in.atFinish ELSE staleFinish)
                 alive4 == IndexOf(u4.m_enemies, id) # 0
                 u5 == HandleEnemyUnderMap(
                           u4, id, IF alive4 THEN in.underMap ELSE staleBelow)
             IN  [u5 EXCEPT !.iter.stale = ~alive4, !.i = @ + 1]

RECURSIVE EraseDead(_, _)
\* The erasure after the loop: the indices of enemiesToRemove, last first.
EraseDead(u, k) ==
    IF k = 0 THEN u
    ELSE LET index == u.enemiesToRemove[k]
         IN  EraseDead(Log([u EXCEPT !.m_enemies = EraseAt(@, index)],
                           "erase", u.m_enemies[index]), k - 1)

\* The end of UpdateGame and of the frame.
AfterEnemyLoop(u) ==
    [EraseDead(u, Len(u.enemiesToRemove)) EXCEPT !.pc = "frame", !.frame = @ + 1]

\* The player after two hits from above.
HurtPlayer == TakeDamage(TakeDamage(NewPlayer(0, 0, TEXTURE_RESOLUTION, START_TEXTURE_SCALE)))

\* A game in play: the player as InitializeEntities creates it, after four
\* kills, or after two hits; no enemy yet; the game-over menu's selection as the first
\* game finds it (0) or as a game over left by Down and Escape leaves it (1).
NewFrameState(player, selected) ==
    [pc |-> "frame", frame |-> 0, m_player |-> player, m_enemies |-> <<>>,
     game |-> [m_currentGameState |-> "Playing",
               m_selectedGameOverMenuOption |-> selected],
     checked |-> player.radius,
     nextId |-> 1, i |-> 1, enemiesToRemove |-> <<>>, hit |-> {}, trace |-> <<>>,
     bomb |-> [pressed |-> FALSE, requested |-> FALSE],
     iter |-> [id |-> 0],
     bombsEnabled |-> 0, explosionsRequested |-> 0]

PassInputs ==
    [exploded : BOOLEAN, side : {"None", "Top", "Left", "Right"},
     atFinish : BOOLEAN, underMap : BOOLEAN]

FrameBegin ==
    /\ upd.pc = "frame"
    /\ upd.frame < MaxFrames
    /\ \E spawn \in BOOLEAN, spacePressed \in BOOLEAN :
          upd' = BeforeEnemyLoop(upd, spawn, spacePressed)
    /\ UNCHANGED <<poolVars, explVars, entVars, gameVars, groundVars, proc, resize, clash>>

FrameEnemy ==
    /\ upd.pc = "enemies"
    /\ upd.i <= Len(upd.m_enemies)
    /\ \E in \in PassInputs, staleFinish \in BOOLEAN, staleBelow \in BOOLEAN :
          upd' = UpdateEnemy(upd, in, staleFinish, staleBelow)
    /\ UNCHANGED <<poolVars, explVars, entVars, gameVars, groundVars, proc, resize, clash>>

FrameEnd ==
    /\ upd.pc = "enemies"
    /\ upd.i > Len(upd.m_enemies)
    /\ upd' = AfterEnemyLoop(upd)
    /\ UNCHANGED <<poolVars, explVars, entVars, gameVars, groundVars, proc, resize, clash>>

FrameNext == FrameBegin \/ FrameEnemy \/ FrameEnd

InitFrame ==
    /\ \E player \in {NewPlayer(0, 0, TEXTURE_RESOLUTION, START_TEXTURE_SCALE),
                         GrownPlayer, HurtPlayer},
          selected \in {0, 1} :
          upd = NewFrameState(player, selected)
    /\ proc = [pc |-> "none"]
    /\ resize = [pc |-> "none"]
    /\ clash = [pc |-> "none"]
    /\ PoolInit /\ ExplInit /\ EntIdle /\ GameIdle /\ GroundIdle

SpecFrame == InitFrame /\ [][FrameNext]_vars

\* The calls of the frame so far, and the place of each in the order C11's
\* text gives (0 for a call the text does not name).
Trace == IF upd.pc = "none" THEN <<>> ELSE upd.trace
ClaimedRank(step) ==
    CASE step = "ApplyGravity" -> 1
      [] step = "HandleGroundCollision" -> 2
      [] step = "ExecuteAI" -> 3
      [] step = "HandleEnemyCollision" -> 4
      [] step = "CheckExplosionDamage" -> 5
      [] step \in {"RemoveEnemy", "erase"} -> 6
      [] OTHER -> 0

\* C11 as stated: within one Playing frame the steps run in the order
\* gravity, ground collision, enemy AI, player-vs-enemy collision, explosion
\* damage checks, removal of enemies.
C11_ClaimedOrder ==
    \A a, b \in 1..Len(Trace) :
        (a < b /\ ClaimedRank(Trace[a].step) # 0 /\ ClaimedRank(Trace[b].step) # 0)
            => ClaimedRank(Trace[a].step) <= ClaimedRank(Trace[b].step)

\* The place of a call inside one enemy's pass of UpdateGame's loop.
PassRank(step) ==
    CASE step = "CheckExplosionDamage" -> 1
      [] step = "ApplyGravity" -> 2
      [] step = "HandleGroundCollision" -> 3
      [] step = "HandleEnemyCollision" -> 4
      [] step = "HandleFinishLineCollision" -> 5
      [] step = "HandleEnemyUnderMap" -> 6
      [] OTHER -> 0
InPass(e) == e.who # 0 /\ e.step \notin {"ExecuteAI", "erase"}

\* C11, amended: within one Playing frame the enemy AI runs first, for
\* every enemy; then the player's gravity, the player's ground collision and
\* the explosions' update, in this order; then one enemy after the other,
\* each with its explosion damage check first and, unless it was hit, its
\* gravity, ground collision, collision with the player, finish-line check
\* and under-map check, an enemy removed by one of these three being removed
\* at once; and last the removal of the enemies hit by an explosion.
C11_FrameOrder ==
    /\ \A a, b \in 1..Len(Trace) :
          a < b =>
            /\ Trace[b].step = "ExecuteAI" => Trace[a].step = "ExecuteAI"
            /\ Trace[a].step = "erase" => Trace[b].step = "erase"
            /\ (InPass(Trace[a]) /\ Trace[b].who = 0) => FALSE
            /\ (Trace[a].who = 0 /\ Trace[b].who = 0) =>
                  /\ Trace[a].step = "ApplyGravity" =>
                        Trace[b].step \in {"HandleGroundCollision", "ExplosionManager::Update"}
                  /\ Trace[a].step = "HandleGroundCollision" =>
                        Trace[b].step = "ExplosionManager::Update"
                  /\ Trace[a].step # "ExplosionManager::Update"
            /\ (InPass(Trace[a]) /\ InPass(Trace[b]) /\ Trace[a].who = Trace[b].who
                   /\ PassRank(Trace[a].step) # 0 /\ PassRank(Trace[b].step) # 0) =>
                  PassRank(Trace[a].step) < PassRank(Trace[b].step)
            /\ (InPass(Trace[a]) /\ InPass(Trace[b]) /\ Trace[a].who = Trace[b].who) =>
                  \A c \in a..b : Trace[c].who = Trace[a].who
    /\ \A b \in 1..Len(Trace) :
          /\ (InPass(Trace[b]) /\ PassRank(Trace[b].step) > 1) =>
                /\ b > 1
                /\ \E a \in 1..(b - 1) :
                      /\ Trace[a].who = Trace[b].who
                      /\ PassRank(Trace[a].step) = PassRank(Trace[b].step) - 1
          /\ Trace[b].step = "RemoveEnemy" =>
                /\ b > 1
                /\ Trace[b - 1].who = Trace[b].who
                /\ PassRank(Trace[b - 1].step) \in {4, 5, 6}
          /\ Trace[b].step = "erase" =>
                /\ \E a \in 1..b : Trace[a] = [step |-> "CheckExplosionDamage",
                                               who |-> Trace[b].who]
                /\ \A a \in 1..b : Trace[a].who = Trace[b].who =>
                                      Trace[a].step \in {"ExecuteAI", "CheckExplosionDamage", "erase"}
          /\ Trace[b].step \in {"ExecuteAI", "CheckExplosionDamage"} => Trace[b].who # 0

\* C11's case: a finished frame with two enemies, one removed by its
\* collision with the player and one hit by an explosion.
C11_Witness ==
    /\ upd.pc = "frame"
    /\ \E a, b, c \in 1..Len(Trace) :
          /\ Trace[a].step = "ExecuteAI"
          /\ Trace[b].step = "RemoveEnemy" /\ Trace[b - 1].step = "HandleEnemyCollision"
          /\ Trace[c].step = "erase"

\* The last pass of the enemy loop, when there was one in this frame.
PassDone == upd.pc # "none" /\ upd.iter.id # 0

\* C17: an enemy whose circle overlaps the finish line in its pass (and that
\* no explosion hit, so that the pass reaches the finish-line check) is out
\* of the list after the pass, the player has been shrunk once for it, and
\* no kill has been counted.
C17_FinishLineShrinksOnce ==
    (PassDone /\ ~upd.iter.in.exploded /\ upd.iter.in.atFinish) =>
        /\ IndexOf(upd.m_enemies, upd.iter.id) = 0
        /\ upd.iter.shrinks = 1
        /\ upd.m_player.m_killCount = upd.iter.player.m_killCount

ExplStartInactive(position, lives) ==
    /\ ~expl.m_isActive
    /\ ExplStart(position, lives)

\* ExplosionManager::Update in a frame whose time is positive.
ExplTick == \E dt \in {d \in DeltaTimes : d > 0} : ExplUpdate(dt)

ExplLiveNext ==
    \/ \E p \in Positions, lives \in LifeDraws : ExplStartInactive(p, lives)
    \/ \E dt \in DeltaTimes : ExplUpdate(dt)

SpecExplosionLive == InitExplosion /\ [][ExplLiveNext]_vars /\ WF_vars(ExplTick)

\* The blast radius the explosion reports (times m_maxDuration).
BlastRadius == GetRadius(expl)
Ended == ~expl.m_isActive /\ BlastRadius = 0

\* C21: a started explosion that is updated again and again with a positive
\* frame time and is not restarted becomes inactive, and its blast radius is
\* then 0; while it is active an Update never lowers the blast radius, which
\* never exceeds the maximum radius.
C21_EventuallyInactive ==
    /\ [](expl.m_isActive => <>Ended)
    /\ [](BlastRadius <= DEFAULT_MAX_DURATION * DEFAULT_MAX_RADIUS)
    /\ [][(expl.m_isActive /\ expl'.m_isActive) => BlastRadius' >= BlastRadius]_vars
    /\ [](~expl.m_isActive => BlastRadius = 0)

\* C21's case: an explosion that was started has been ended by an Update.
C21_Witness ==
    /\ explStarted
    /\ explOp.op = "Update"
    /\ ~expl.m_isActive
    /\ expl.m_timer >= DEFAULT_MAX_DURATION

\* C22: in a pass of UpdateGame's enemy loop, no handler is called on an
\* enemy that an earlier handler of the pass has removed: the finish-line
\* and under-map checks never read a destroyed enemy.
C22_NoAccessAfterRemoval == PassDone => ~upd.iter.stale

\* How often the frame made the call step on enemy id.
Calls(step, id) ==
    Cardinality({a \in 1..Len(Trace) : Trace[a] = [step |-> step, who |-> id]})

\* C27: when an UpdateGame call that did not end in game over returns, every
\* enemy still in the list had its gravity, its ground collision and its
\* player, finish-line and under-map checks applied exactly once in the
\* call, and the final pass erased exactly the enemies found hit by an
\* explosion.
C27_EveryEnemyHandledOnce ==
    (upd.pc = "frame" /\ upd.frame > 0) =>
        /\ \A k \in 1..Len(upd.m_enemies) :
              \A step \in {"ApplyGravity", "HandleGroundCollision", "HandleEnemyCollision",
                           "HandleFinishLineCollision", "HandleEnemyUnderMap"} :
                  Calls(step, upd.m_enemies[k]) = 1
        /\ {Trace[a].who : a \in {b \in 1..Len(Trace) : Trace[b].step = "erase"}} = upd.hit

\* The part of C27 about the final pass: it erases exactly the enemies the
\* frame's explosion checks found hit.
ErasedAreTheHit ==
    (upd.pc = "frame" /\ upd.frame > 0) =>
        {Trace[a].who : a \in {b \in 1..Len(Trace) : Trace[b].step = "erase"}} = upd.hit

\* C23: in every state other than AskExit and Exit, m_shouldExit is false,
\* so that a visit to the exit menu starts without a pending exit and only
\* Yes or Escape pressed in that visit can lead to Exit.
C23_ShouldExitOnlyWhenAsked ==
    game.m_currentGameState \notin {"AskExit", "Exit"} => ~game.m_shouldExit

\* The frame has made the call step on some enemy.
OnEnemy(step) == \E a \in 1..Len(Trace) : Trace[a].step = step /\ Trace[a].who # 0

\* C30: a Playing frame ends in state GameOver exactly when the player's
\* radius at UpdateGame's test, after the player's input, gravity and ground
\* collision, is at most TEXTURE_RESOLUTION; such a frame applies no gravity
\* and no ground collision to an enemy, makes no collision check on one and
\* removes none, and leaves the game-over menu on its first option.
C30_GameOverAtCheck ==
    (upd.pc # "none" /\ Trace # <<>>) =>
        /\ upd.game.m_currentGameState = "GameOver" <=> upd.checked <= TEXTURE_RESOLUTION
        /\ upd.game.m_currentGameState = "GameOver" =>
              /\ upd.pc = "GameOver"
              /\ upd.m_player.radius = upd.checked
              /\ \A step \in {"ApplyGravity", "HandleGroundCollision", "CheckExplosionDamage",
                              "HandleEnemyCollision", "HandleFinishLineCollision",
                              "HandleEnemyUnderMap", "RemoveEnemy", "erase"} : ~OnEnemy(step)
              /\ upd.game.m_selectedGameOverMenuOption = 0
        /\ upd.game.m_currentGameState # "GameOver" => upd.pc \in {"enemies", "frame"}

C30_Witness ==
    /\ upd.pc = "GameOver"
    /\ upd.game.m_currentGameState = "GameOver"
    /\ upd.checked <= TEXTURE_RESOLUTION
    /\ Len(upd.m_enemies) > 0
    /\ OnEnemy("ExecuteAI")

(***************************************************************************)
(* Colour names (Game::GetColorName).                                      *)
(***************************************************************************)

\* The names GetColorName returns, in the order of its tests; test k compares
\* with the colour that initialiser k of COLOR_OPTIONS names.
COLOR_NAMES ==
    << "Sky Blue (Default)", "Black", "White", "Green", "Blue", "Yellow",
       "Orange", "Purple", "Brown", "Dark Gray", "Gray", "Light Gray", "Pink",
       "Magenta", "Dark Green", "Dark Blue", "Dark Purple", "Dark Brown",
       "Ray White", "Gold", "Lime", "Beige", "Sky Blue", "Violet" >>

\* Game::GetColorName from its test k on.
RECURSIVE GetColorNameFrom(_, _)
GetColorNameFrom(color, k) ==
    IF k > Len(COLOR_NAMES) THEN "Custom"
    ELSE IF AreColorsEqual(color, COLOR_OPTIONS[k]) THEN COLOR_NAMES[k]
    ELSE GetColorNameFrom(color, k + 1)

\* Game::GetColorName.
GetColorName(color) == GetColorNameFrom(color, 1)

\* C29: whatever sequence of CycleToNextBackgroundColor and
\* CycleToPreviousBackgroundColor the Options screen has applied from the
\* default colour, the background colour is one GetColorName names (it never
\* returns "Custom"), and the COLOR_COUNT positions of the cycle hold
\* distinct colours.
C29_ColorAlwaysNamed ==
    /\ GetColorName(game.m_backgroundColor) # "Custom"
    /\ \A i, j \in 1..COLOR_COUNT : i # j => ~AreColorsEqual(COLOR_OPTIONS[i], COLOR_OPTIONS[j])

\* The part of C29 about the cycle: its COLOR_COUNT positions are distinct
\* and the colour is always one of them.
CyclePositionsDistinct ==
    /\ \E i \in 1..COLOR_COUNT : AreColorsEqual(game.m_backgroundColor, COLOR_OPTIONS[i])
    /\ \A i, j \in 1..COLOR_COUNT : i # j => ~AreColorsEqual(COLOR_OPTIONS[i], COLOR_OPTIONS[j])

(***************************************************************************)
(* SpecSession: Game::Run from construction through menus and games, with  *)
(* the enemy list, the spawn members and the difficulty progression.  A    *)
(* Playing frame takes the frame time, the keys and what happens to one    *)
(* enemy of the list: nothing, a kill from the side, or a hit on the       *)
(* player from above.  The games explored are those in which the player    *)
(* only kills (up to SessionKills enemies) or is only hit, and Space is    *)
(* pressed only when the bomb is enabled (HandleBombInput does nothing     *)
(* otherwise).                                                             *)
(***************************************************************************)

\* GetFrameTime in a Playing frame of the session, in half seconds: 1 s and
\* 5 s.
SessionTimes == {2, 10}

\* m_deltaTime in milliseconds.
Millis(deltaTime) == 500 * deltaTime

\* SpawnEnemies without its test of the list's size.
SpawnEnemies_NoLimit(g, deltaTime) ==
    LET timer == g.m_enemySpawnTimer + Millis(deltaTime)
    IN  IF timer < g.m_enemySpawnInterval
        THEN [g EXCEPT !.m_enemySpawnTimer = timer]
        ELSE [g EXCEPT !.m_enemies = @ + 1,
                       !.m_enemySpawnTimer = 0,
                       !.m_enemySpawnInterval = MulK(@, 750)]

\* Game::SpawnEnemies.
SpawnEnemiesTimed(g, deltaTime) ==
    IF g.m_enemies >= g.m_maxEnemies THEN g
    ELSE LET timer == g.m_enemySpawnTimer + Millis(deltaTime)
         IN  IF timer < g.m_enemySpawnInterval
             THEN [g EXCEPT !.m_enemySpawnTimer = timer]
             ELSE [g EXCEPT !.m_enemies = @ + 1,
                            !.m_enemySpawnTimer = 0,
                            !.m_enemySpawnInterval = MulK(@, 750)]

\* The difficulty progression of UpdateGame: every 5 s the enemy scale, or
\* once that has reached MAX_ENTITY_SCALE the hardness, times 1.1.
BuffEnemies(g, deltaTime) ==
    LET timer == g.enemyBuffTimer + Millis(deltaTime)
    IN  IF timer >= 5000
        THEN IF g.m_enemyScale < MAX_ENTITY_SCALE
             THEN [g EXCEPT !.m_enemyScale = MulK(@, 1100), !.enemyBuffTimer = 0]
             ELSE IF g.m_gameHardness < MAX_GAME_HARDNESS
             THEN [g EXCEPT !.m_gameHardness = MulK(@, 1100), !.enemyBuffTimer = 0]
             ELSE [g EXCEPT !.enemyBuffTimer = 0]
        ELSE [g EXCEPT !.enemyBuffTimer = timer]

\* UpdateGame's loop on one enemy of the list.
EnemyEvent(g, event) ==
    IF g.m_enemies = 0 \/ event = "None" THEN g
    ELSE LET hit == [g EXCEPT !.m_player = HandleEnemyCollisionPlayer(@, event)]
         IN  IF event \in {"Left", "Right"} THEN [hit EXCEPT !.m_enemies = @ - 1] ELSE hit

\* Game::UpdateGame with the difficulty progression and the enemy list.
UpdateGameSession(g, keys, deltaTime, event) ==
    IF g.m_player = NoPlayer THEN g
    ELSE LET bombed == [g EXCEPT !.m_player = HandleBombInputPlayer(@, "Space" \in keys)]
             buffed == BuffEnemies(bombed, deltaTime)
         IN  IF buffed.m_player.radius <= TEXTURE_RESOLUTION
             THEN SetGameOver(buffed)
             ELSE EnemyEvent(buffed, event)

\* The Playing case of Game::Run: Escape, SpawnEnemies, UpdateGame.
RunPlayingSession(g, keys, deltaTime, event) ==
    LET g1 == IF g.m_player # NoPlayer /\ "Esc" \in keys
              THEN [g EXCEPT !.m_currentGameState = "MainMenu", !.m_resetGame = TRUE]
              ELSE g
    IN  UpdateGameSession(SpawnEnemiesTimed(g1, deltaTime), keys, deltaTime, event)

\* The kills counted in one game of the session.
SessionKills == 5

SessionPlayingFrame(keys, deltaTime, event) ==
    /\ game.m_currentGameState = "Playing"
    /\ event = "Left" =>
          /\ game.m_player # NoPlayer
          /\ game.m_player.m_killCount < SessionKills
          /\ game.m_player.m_sizeScale >= START_TEXTURE_SCALE
    /\ event = "Top" =>
          /\ game.m_player # NoPlayer
          /\ game.m_player.m_killCount = 0
    /\ "Space" \in keys => game.m_player # NoPlayer /\ game.m_player.m_canUseBomb
    /\ game' = RunPlayingSession(game, keys, deltaTime, event)
    /\ m_explosions' = UpdateGamePool(game, keys, m_explosions, m_maxExplosions,
                                      PoolLives, deltaTime)
    /\ frame' = [state |-> "Playing", keys |-> keys]
    /\ UNCHANGED <<m_maxExplosions, poolOp, query, explVars, entVars, groundVars, appVars>>

InitSession == GameIdle /\ PoolInit /\ ExplInit /\ EntIdle /\ GroundIdle /\ AppIdle

SessionNext ==
    \/ \E keys \in {{"Enter"}, {"Down"}} : MainMenuFrame(keys)
    \/ ControlsFrame({"Esc"})
    \/ \E keys \in {{"Left"}, {"Esc"}} : OptionsFrame(keys)
    \/ \E keys \in {{}, {"Space"}, {"Esc"}, {"Space", "Esc"}}, deltaTime \in SessionTimes,
          event \in {"None", "Left", "Top"} :
          SessionPlayingFrame(keys, deltaTime, event)
    \/ \E keys \in {{"Enter"}, {"Down"}, {"Esc"}} : GameOverFrame(keys)
    \/ \E keys \in {{"Enter"}, {"Down"}} : AskExitFrame(keys, FALSE)

SpecSession == InitSession /\ [][SessionNext]_vars

\* C28: in every state m_enemyScale is at most MAX_ENTITY_SCALE and
\* m_gameHardness at most MAX_GAME_HARDNESS.
C28_DifficultyCapped ==
    /\ game.m_enemyScale <= MAX_ENTITY_SCALE
    /\ game.m_gameHardness <= MAX_GAME_HARDNESS

\* The frame just run has taken the game into Playing: Start Game in the main
\* menu, or Play Again in the game-over menu.
EnteredPlaying ==
    /\ frame.state \in {"MainMenu", "GameOver"}
    /\ game.m_currentGameState = "Playing"

\* An explosion of the pool is active.
SomeExplosionActive == \E i \in 1..Len(m_explosions) : m_explosions[i].m_isActive

\* What ResetGame and InitializeEntities set: no enemy, a new player, the
\* spawn members and the difficulty at their starting values.
FreshLevel ==
    /\ game.m_enemies = 0
    /\ game.m_player # NoPlayer
    /\ game.m_player.m_killCount = 0
    /\ ~game.m_player.m_canUseBomb
    /\ game.m_enemyScale = START_TEXTURE_SCALE
    /\ game.m_enemySpawnTimer = 0
    /\ game.m_enemySpawnInterval = START_SPAWN_INTERVAL
    /\ game.m_gameHardness = START_GAME_HARDNESS

\* The part of C24 that ResetGame and InitializeEntities see to.
FreshLevelOnEntering == EnteredPlaying => FreshLevel

\* C24: whenever the game enters Playing, by Start Game or by Play Again, it
\* is a fresh game: no enemy, no active explosion, kill count 0, bomb
\* disabled, enemy scale 2.0, spawn timer 0, spawn interval 4.0 and
\* hardness 0.5.
C24_FreshOnEnteringPlaying ==
    EnteredPlaying => (FreshLevel /\ ~SomeExplosionActive)

C26_GroundWhenPlaying ==
    (resize.pc = "loop" /\ resize.m_currentGameState = "Playing") =>
        resize.m_grounds # <<>>

====
